---------------------------- MODULE Spec2Model ----------------------------
(***************************************************************************)
(* Learn2Card: text -> paragraphs -> keypoints -> embeddings -> topics ->  *)
(* cards -> deck, and the deck validator.                                  *)
(*                                                                         *)
(* Two implementations of the pipeline are modelled side by side:          *)
(*   "l2c"     backend/learn2cards/pipeline.py  (analyze_text)             *)
(*   "agent_a" backend/agent_a/*.py             (run_agent_a)              *)
(*                                                                         *)
(* Representation.                                                         *)
(*  - A Python str is a sequence of characters.  An ASCII character is the *)
(*    one-character string; a CJK code point is written by its name, e.g.  *)
(*    "U4E2D", and counts as one character.                                *)
(*  - A float is a fixed-point integer in units of 1/Scale: 1.0 is Scale.  *)
(*    Square roots and quotients round down.                               *)
(*  - None / an absent key is 0 for headingLevel and << >> for sectionPath. *)
(***************************************************************************)
EXTENDS Integers, Sequences, FiniteSets, TLC

---------------------------------------------------------------------------
(* Characters and Python str methods                                       *)

Digits == <<"0", "1", "2", "3", "4", "5", "6", "7", "8", "9">>
UpperLetters == <<"A", "B", "C", "D", "E", "F", "G", "H", "I", "J", "K", "L", "M",
                  "N", "O", "P", "Q", "R", "S", "T", "U", "V", "W", "X", "Y", "Z">>
LowerLetters == <<"a", "b", "c", "d", "e", "f", "g", "h", "i", "j", "k", "l", "m",
                  "n", "o", "p", "q", "r", "s", "t", "u", "v", "w", "x", "y", "z">>
\* The code points of [\u4e00-\u9fff] that occur in the model, in code-point order.
CJKChars == <<"U4E0A", "U4E0B", "U4E2D", "U4EE5", "U53CA", "U6587", "U91CD", "U9EDE">>

Range(s) == {s[i] : i \in DOMAIN s}

IsDigit(c) == c \in Range(Digits)
IsUpper(c) == c \in Range(UpperLetters)
IsLower(c) == c \in Range(LowerLetters)
IsLetter(c) == IsUpper(c) \/ IsLower(c)
IsCJK(c) == c \in Range(CJKChars)
IsSpace(c) == c \in {" ", "\t", "\n", "\r", "\f"}

\* The characters of the model in code-point order: printable ASCII (without
\* the double quote, the backslash and the backtick), then the
\* other code points that occur in inputs and in the literals of the source.
CharOrder == <<
    " ", "!", "#", "$", "%", "&", "'", "(", ")",
    "*", "+", ",", "-", ".", "/", "0", "1", "2", "3",
    "4", "5", "6", "7", "8", "9", ":", ";", "<", "=",
    ">", "?", "@", "A", "B", "C", "D", "E", "F", "G",
    "H", "I", "J", "K", "L", "M", "N", "O", "P", "Q",
    "R", "S", "T", "U", "V", "W", "X", "Y", "Z", "[",
    "]", "^", "_", "a", "b", "c", "d", "e",
    "f", "g", "h", "i", "j", "k", "l", "m", "n", "o",
    "p", "q", "r", "s", "t", "u", "v", "w", "x", "y",
    "z", "{", "|", "}", "~", "U2026", "U3001", "U3002", "U4E0A", "U4E0B", "U4E0D", "U4E2D",
    "U4E3B", "U4EE5", "U5145", "U5167", "U5206", "U524D", "U5361", "U53CA", "U540D", "U547D",
    "U591A", "U5B57", "U5BB9", "U6216", "U6587", "U66F4", "U6709", "U672A", "U6B64", "U6BB5",
    "U6C92", "U7247", "U76EE", "U7B2C", "U843D", "U88DC", "U8ACB", "U8DB3", "U90E8", "U91CD", "U984C", "U9EDE",
    "UFF01", "UFF08", "UFF09", "UFF0C", "UFF1F" >>
Ord(c) == CHOOSE i \in DOMAIN CharOrder : CharOrder[i] = c

\* str.lower() on one character
LowerChar(c) ==
    IF IsUpper(c)
    THEN LowerLetters[CHOOSE i \in DOMAIN UpperLetters : UpperLetters[i] = c]
    ELSE c
Lower(s) == [i \in DOMAIN s |-> LowerChar(s[i])]

\* s[a:b] with 0-based Python bounds, 0 <= a
Slice(s, a, b) ==
    LET hi == IF b > Len(s) THEN Len(s) ELSE b
    IN  IF a >= hi THEN << >> ELSE SubSeq(s, a + 1, hi)
Prefix(s, n) == Slice(s, 0, n)
Drop(s, n) == Slice(s, n, Len(s))

\* number of leading characters of s that satisfy the class test
RECURSIVE LeadingSpaces(_)
LeadingSpaces(s) ==
    IF s = << >> \/ ~IsSpace(Head(s)) THEN 0 ELSE 1 + LeadingSpaces(Tail(s))
RECURSIVE TrailingSpaces(_)
TrailingSpaces(s) ==
    IF s = << >> \/ ~IsSpace(s[Len(s)]) THEN 0
    ELSE 1 + TrailingSpaces(SubSeq(s, 1, Len(s) - 1))

LStrip(s) == Drop(s, LeadingSpaces(s))
RStrip(s) == Prefix(s, Len(s) - TrailingSpaces(s))
\* str.strip()
Strip(s) == RStrip(LStrip(s))

RECURSIVE LeadingNewlines(_)
LeadingNewlines(s) ==
    IF s = << >> \/ Head(s) # "\n" THEN 0 ELSE 1 + LeadingNewlines(Tail(s))
RECURSIVE TrailingNewlines(_)
TrailingNewlines(s) ==
    IF s = << >> \/ s[Len(s)] # "\n" THEN 0
    ELSE 1 + TrailingNewlines(SubSeq(s, 1, Len(s) - 1))
\* str.strip("\n")
StripNewlines(s) ==
    LET l == Drop(s, LeadingNewlines(s))
    IN  Prefix(l, Len(l) - TrailingNewlines(l))

\* text.replace("\r\n", "\n").replace("\r", "\n")
RECURSIVE NormalizeNewlines(_)
NormalizeNewlines(s) ==
    IF s = << >> THEN << >>
    ELSE IF Head(s) = "\r"
         THEN IF Len(s) >= 2 /\ s[2] = "\n"
              THEN <<"\n">> \o NormalizeNewlines(Drop(s, 2))
              ELSE <<"\n">> \o NormalizeNewlines(Tail(s))
         ELSE <<Head(s)>> \o NormalizeNewlines(Tail(s))

\* str.split("\n"): always at least one piece
RECURSIVE SplitLinesAcc(_, _, _)
SplitLinesAcc(s, cur, acc) ==
    IF s = << >> THEN Append(acc, cur)
    ELSE IF Head(s) = "\n" THEN SplitLinesAcc(Tail(s), << >>, Append(acc, cur))
         ELSE SplitLinesAcc(Tail(s), Append(cur, Head(s)), acc)
SplitLines(s) == SplitLinesAcc(s, << >>, << >>)

\* sep.join(parts)
RECURSIVE Join(_, _)
Join(parts, sep) ==
    IF parts = << >> THEN << >>
    ELSE IF Len(parts) = 1 THEN parts[1]
         ELSE parts[1] \o sep \o Join(Tail(parts), sep)

\* re.sub(r"\s+", " ", s)
RECURSIVE CollapseSpaces(_)
CollapseSpaces(s) ==
    IF s = << >> THEN << >>
    ELSE IF IsSpace(Head(s))
         THEN <<" ">> \o CollapseSpaces(Drop(s, LeadingSpaces(s)))
         ELSE <<Head(s)>> \o CollapseSpaces(Tail(s))

\* str(n) for n >= 0, and int(s) for a string of digits
RECURSIVE Decimal(_)
Decimal(n) ==
    IF n < 10 THEN <<Digits[n + 1]>>
    ELSE Decimal(n \div 10) \o <<Digits[(n % 10) + 1]>>
DigitValue(c) == (CHOOSE i \in DOMAIN Digits : Digits[i] = c) - 1
RECURSIVE ParseIntAcc(_, _)
ParseIntAcc(s, acc) ==
    IF s = << >> THEN acc ELSE ParseIntAcc(Tail(s), acc * 10 + DigitValue(Head(s)))
IsInt(s) == s # << >> /\ \A i \in DOMAIN s : IsDigit(s[i])
ParseInt(s) == ParseIntAcc(s, 0)

\* lexicographic order of two strings by code point (Python's str <)
RECURSIVE StrLess(_, _)
StrLess(a, b) ==
    IF b = << >> THEN FALSE
    ELSE IF a = << >> THEN TRUE
    ELSE IF Head(a) = Head(b) THEN StrLess(Tail(a), Tail(b))
    ELSE Ord(Head(a)) < Ord(Head(b))

\* number of occurrences of x in the sequence s
Count(s, x) == Cardinality({i \in DOMAIN s : s[i] = x})
\* the elements of s that satisfy Keep, in order
RECURSIVE SelectIdx(_, _)
SelectIdx(s, idxs) ==
    IF s = << >> THEN << >>
    ELSE (IF 1 \in idxs THEN <<Head(s)>> ELSE << >>)
         \o SelectIdx(Tail(s), {i - 1 : i \in idxs \ {1}})
\* first occurrences only, order kept (dict / Counter insertion order)
Unique(s) == SelectIdx(s, {i \in DOMAIN s : \A j \in 1..(i - 1) : s[j] # s[i]})


---------------------------------------------------------------------------
(* learn2cards/pipeline.py: _split_paragraphs                              *)

\* number of leading "#" of a line
RECURSIVE LeadingHashes(_)
LeadingHashes(s) ==
    IF s = << >> \/ Head(s) # "#" THEN 0 ELSE 1 + LeadingHashes(Tail(s))
RECURSIVE LeadingDigits(_)
LeadingDigits(s) ==
    IF s = << >> \/ ~IsDigit(Head(s)) THEN 0 ELSE 1 + LeadingDigits(Tail(s))

\* _RE_MD_HEADING = ^(#{1,6})\s+(.*)\s*$ ; group 2 may be empty
MdHeadingMatches(line) ==
    LET k == LeadingHashes(line)
    IN  k >= 1 /\ k <= 6 /\ Len(line) > k /\ IsSpace(line[k + 1])
MdHeadingLevel(line) == LeadingHashes(line)
MdHeadingTitle(line) == LStrip(Drop(line, LeadingHashes(line)))

\* what follows the list marker of a line, or <<"no">> when there is no marker:
\* (\s*)(?:[-*+]|(\d+)[.)])
AfterListMarker(line) ==
    LET rest == LStrip(line)
        d == LeadingDigits(rest)
    IN  IF rest # << >> /\ rest[1] \in {"-", "*", "+"} THEN <<"ok", Drop(rest, 1)>>
        ELSE IF d >= 1 /\ Len(rest) > d /\ rest[d + 1] \in {".", ")"}
             THEN <<"ok", Drop(rest, d + 1)>>
             ELSE <<"no", << >> >>
\* _RE_LIST_ITEM = ^(\s*)(?:[-*+]|(\d+)[.)])\s+(.*)\s*$
ListItemMatches(line) ==
    LET a == AfterListMarker(line)
    IN  a[1] = "ok" /\ a[2] # << >> /\ IsSpace(a[2][1])
ListItemText(line) == LStrip(AfterListMarker(line)[2])

NonEmpty(seq) == SelectIdx(seq, {i \in DOMAIN seq : seq[i] # << >>})

\* set_heading(level, title): the closure's three variables after the call
set_heading(st, level, title) ==
    IF level <= 0
    THEN [st EXCEPT !.heading_titles = << >>, !.section_stack = << >>,
                    !.current_heading_level = 0]
    ELSE LET cut == IF Len(st.heading_titles) >= level
                    THEN Prefix(st.heading_titles, level - 1)
                    ELSE st.heading_titles
             padded == cut \o [i \in 1..((level - 1) - Len(cut)) |-> << >>]
             titles == Append(padded, Strip(title))
         IN  [st EXCEPT !.heading_titles = titles,
                        !.section_stack = NonEmpty(titles),
                        !.current_heading_level = level]

\* the paragraph dict both flush_buf and the list-item branch build
L2CParagraph(st, text) ==
    [text |-> text, sectionPath |-> st.section_stack,
     headingLevel |-> st.current_heading_level]

\* flush_buf()
L2CFlushBuf(st) ==
    LET joined == Strip(Join(st.buf, <<"\n">>))
    IN  [st EXCEPT !.buf = << >>,
                   !.paras = IF joined # << >>
                             THEN Append(st.paras, L2CParagraph(st, joined))
                             ELSE st.paras]

\* one iteration of "for line in lines"
L2CSplitLine(st, line) ==
    IF MdHeadingMatches(line)
    THEN set_heading(L2CFlushBuf(st), MdHeadingLevel(line), Strip(MdHeadingTitle(line)))
    ELSE IF Strip(line) = << >>
    THEN L2CFlushBuf(st)
    ELSE IF ListItemMatches(line)
    THEN LET f == L2CFlushBuf(st)
             item_text == Strip(ListItemText(line))
         IN  IF item_text # << >>
             THEN [f EXCEPT !.paras = Append(f.paras, L2CParagraph(f, item_text))]
             ELSE f
    ELSE [st EXCEPT !.buf = Append(st.buf, RStrip(line))]

RECURSIVE L2CSplitLoop(_, _)
L2CSplitLoop(st, lines) ==
    IF lines = << >> THEN st
    ELSE L2CSplitLoop(L2CSplitLine(st, Head(lines)), Tail(lines))

_split_paragraphs(text) ==
    LET st0 == [heading_titles |-> << >>, section_stack |-> << >>,
                current_heading_level |-> 0, paras |-> << >>, buf |-> << >>]
    IN  L2CFlushBuf(L2CSplitLoop(st0, SplitLines(text))).paras

---------------------------------------------------------------------------
(* Bounds of the model                                                     *)

\* lines of a short text
MaxLines == 2
\* items of a long list
MaxItems == 10
\* the latest time a call can read from the clock
MaxClock == 1
\* a max_chars small enough for the texts of the model to exceed
SmallMaxChars == 4
\* One unit of the fixed-point numbers: the float 1.0
Scale == 1000

\* ISqrt searches below this root; every squared norm of the model is smaller
SqrtCap == 46 * Scale

---------------------------------------------------------------------------
(* Numbers the source fixes                                                *)

\* _title_from_keywords: ranked[:4], then picked[:3]
TitleRanked == 4
TitleWords == 3
\* _cluster_threshold: bullets[:3]
L2CSummaryBullets == 3
\* a topic with more members than this gives two cards
SplitAbove == 8
\* 10**9, the sort key of an unknown id
Missing == 1000000000
\* validate_deck: 1 <= len(kws) <= 5, 1 <= len(bullets) <= 5, memberIds > 8
VMaxKeywords == 5
VMaxBullets == 5
VSplitAbove == 8
\* _validate_options: embedding_dim < 16 is refused
MinEmbeddingDim == 16
\* agent_a cluster_topics: 1e-12, below the resolution of the fixed point
TieEpsilon == 0
\* agent_a cluster_topics: a title taken from a sentence is cut at 60
ATitleCap == 60
\* agent_a build_cards: a topic of more than 8 members gives two cards
ASplitAbove == 8
\* agent_a PipelineOptions.embeddingDimension: ge=8
AMinEmbeddingDim == 8
\* agent_a extract_keypoints: a sentence longer than 280 is cut
ASentenceCap == 280
\* _first_sentence: t[:120]
FirstSentenceCap == 120
\* _extract_keypoints: text[:160]
SentenceFallbackCap == 160
\* the {2,} of the token regexes
MinTokenLen == 2
\* _extract_keywords(..., k=5) and kws[:5]
MaxKeywords == 5

---------------------------------------------------------------------------
(* learn2cards/pipeline.py: language, first sentence, tokens, keywords     *)

_STOPWORDS_EN == {
    <<"t", "h", "e">>, <<"a">>, <<"a", "n">>, <<"a", "n", "d">>,
    <<"o", "r">>, <<"t", "o">>, <<"o", "f">>, <<"i", "n">>, <<"o", "n">>,
    <<"f", "o", "r">>, <<"w", "i", "t", "h">>, <<"a", "s">>, <<"b", "y">>,
    <<"i", "s">>, <<"a", "r", "e">>, <<"w", "a", "s">>,
    <<"w", "e", "r", "e">>, <<"b", "e">>, <<"b", "e", "e", "n">>,
    <<"i", "t">>, <<"t", "h", "i", "s">>, <<"t", "h", "a", "t">>,
    <<"t", "h", "e", "s", "e">>, <<"t", "h", "o", "s", "e">>, <<"a", "t">>,
    <<"f", "r", "o", "m">>, <<"w", "e">>, <<"y", "o", "u">>,
    <<"t", "h", "e", "y">>, <<"i">>, <<"o", "u", "r">>,
    <<"y", "o", "u", "r">>, <<"t", "h", "e", "i", "r">> }

_STOPWORDS_ZH == {
    <<"U7684">>, <<"U4E86">>, <<"U8207">>, <<"U548C">>, <<"U53CA">>,
    <<"U6216">>, <<"U5728">>, <<"U5C0D">>, <<"U628A">>, <<"U662F">>,
    <<"U70BA">>, <<"U4E26">>, <<"U800C">>, <<"U4E5F">>, <<"U90FD">>,
    <<"U53CA", "U5176">>, <<"U4EE5", "U53CA">>, <<"U5982", "U679C">>,
    <<"U56E0", "U70BA">>, <<"U6240", "U4EE5">>, <<"U6211", "U5011">>,
    <<"U4F60", "U5011">>, <<"U4ED6", "U5011">>, <<"U5979", "U5011">>,
    <<"U5B83", "U5011">> }

\* re.search(r"[\u4e00-\u9fff]", text)
HasCJK(text) == \E i \in DOMAIN text : IsCJK(text[i])

_resolve_language(language, text) ==
    IF language \in {"zh", "en"} THEN language
    ELSE IF HasCJK(text) THEN "zh" ELSE "en"

\* [\u3002\uff01\uff1f!?]
ZhTerminators == {"U3002", "UFF01", "UFF1F", "!", "?"}
\* [.?!]
EnTerminators == {".", "?", "!"}

\* re.split(pattern, t, maxsplit=1)[0]: t up to the first match, all of t if none
BeforeFirstZhTerminator(t) ==
    LET hits == {i \in DOMAIN t : t[i] \in ZhTerminators}
    IN  IF hits = {} THEN t
        ELSE Prefix(t, (CHOOSE i \in hits : \A j \in hits : i <= j) - 1)
\* pattern [.?!]\s : a terminator followed by one whitespace character
BeforeFirstEnTerminator(t) ==
    LET hits == {i \in DOMAIN t : /\ t[i] \in EnTerminators
                                  /\ i < Len(t)
                                  /\ IsSpace(t[i + 1])}
    IN  IF hits = {} THEN t
        ELSE Prefix(t, (CHOOSE i \in hits : \A j \in hits : i <= j) - 1)

_first_sentence(text, lang) ==
    LET t == Strip(CollapseSpaces(text))
        s == IF lang = "zh" THEN Strip(BeforeFirstZhTerminator(t))
             ELSE Strip(BeforeFirstEnTerminator(t))
    IN  IF t = << >> THEN << >>
        ELSE IF s # << >> THEN s ELSE Prefix(t, FirstSentenceCap)

\* the character class of the token regexes: [a-z0-9] and, for zh, [\u4e00-\u9fff]
L2CTokenClass(c, lang) ==
    IF IsLower(c) \/ IsDigit(c) THEN "alnum"
    ELSE IF lang = "zh" /\ IsCJK(c) THEN "cjk"
    ELSE "none"
RECURSIVE L2CRunLength(_, _, _)
L2CRunLength(s, cls, lang) ==
    IF s = << >> \/ L2CTokenClass(Head(s), lang) # cls THEN 0
    ELSE 1 + L2CRunLength(Tail(s), cls, lang)
\* re.findall(r"[\u4e00-\u9fff]{2,}|[a-z0-9]{2,}", t) / re.findall(r"[a-z0-9]{2,}", t)
RECURSIVE L2CFindTokens(_, _)
L2CFindTokens(s, lang) ==
    IF s = << >> THEN << >>
    ELSE LET cls == L2CTokenClass(Head(s), lang)
             n == L2CRunLength(s, cls, lang)
         IN  IF cls = "none" THEN L2CFindTokens(Tail(s), lang)
             ELSE (IF n >= MinTokenLen THEN <<Prefix(s, n)>> ELSE << >>)
                  \o L2CFindTokens(Drop(s, n), lang)

_tokenize(text, lang) == L2CFindTokens(Lower(text), lang)

\* sorted(Counter(tokens).items(), key=lambda kv: (-kv[1], kv[0])), the words only
RankBefore(tokens, a, b) ==
    \/ Count(tokens, a) > Count(tokens, b)
    \/ Count(tokens, a) = Count(tokens, b) /\ StrLess(a, b)
RECURSIVE RankedSet(_, _)
RankedSet(tokens, left) ==
    IF left = {} THEN << >>
    ELSE LET first == CHOOSE a \in left :
                          \A b \in left \ {a} : RankBefore(tokens, a, b)
         IN  <<first>> \o RankedSet(tokens, left \ {first})
Ranked(tokens) == RankedSet(tokens, Range(tokens))

_extract_keywords(text, lang, k) ==
    LET all == _tokenize(text, lang)
        stop == IF lang = "zh" THEN _STOPWORDS_ZH ELSE _STOPWORDS_EN
        tokens == SelectIdx(all, {i \in DOMAIN all : all[i] \notin stop})
    IN  IF tokens = << >> THEN << >> ELSE Prefix(Ranked(tokens), k)

\* the keypoint of one paragraph: the body of the loop of _extract_keypoints
L2CKeypoint(p, language) ==
    LET KeyPoint(sent, kws) ==
            [paragraphId |-> p.id, sentence |-> sent, keywords |-> Prefix(kws, MaxKeywords)]
        \* if not kws: toks = _tokenize(p.text, language); kws = toks[:1] if toks else []
        Fallback(sent, kws) ==
            KeyPoint(sent, IF Len(kws) = 0 THEN Prefix(_tokenize(p.text, language), 1)
                           ELSE kws)
        \* if not kws: kws = _extract_keywords(sent, ...); kws = kws[:5]
        FromSentence(sent, kws) ==
            Fallback(sent, Prefix(IF kws = << >>
                                  THEN _extract_keywords(sent, language, MaxKeywords)
                                  ELSE kws, MaxKeywords))
        \* if not sent: sent = p.text[:160].strip()
        Sentence(sent) ==
            FromSentence(IF sent = << >> THEN Strip(Prefix(p.text, SentenceFallbackCap))
                         ELSE sent,
                         _extract_keywords(p.text, language, MaxKeywords))
    IN  Sentence(_first_sentence(p.text, language))

_extract_keypoints(paragraphs, language) ==
    [i \in DOMAIN paragraphs |-> L2CKeypoint(paragraphs[i], language)]

---------------------------------------------------------------------------
(* Fixed-point arithmetic standing for Python floats                       *)

\* floor(sqrt(n)) for n >= 0
RECURSIVE ISqrtBetween(_, _, _)
ISqrtBetween(n, lo, hi) ==
    \* invariant: lo * lo <= n < (hi + 1) * (hi + 1)
    IF lo >= hi THEN lo
    ELSE LET mid == (lo + hi + 1) \div 2
         IN  IF mid * mid <= n THEN ISqrtBetween(n, mid, hi)
             ELSE ISqrtBetween(n, lo, mid - 1)
ISqrt(n) == ISqrtBetween(n, 0, IF n < SqrtCap THEN n ELSE SqrtCap)

RECURSIVE SumSeq(_)
SumSeq(s) ==
    IF s = << >> THEN 0
    ELSE IF Len(s) = 1 THEN s[1]
    ELSE SumSeq(SubSeq(s, 1, Len(s) \div 2)) + SumSeq(SubSeq(s, (Len(s) \div 2) + 1, Len(s)))

---------------------------------------------------------------------------
(* learn2cards/pipeline.py: hashed bag-of-words embedding                  *)

\* int(hashlib.md5(token).hexdigest()[:8], 16) as <<high 16 bits, low 16 bits>>,
\* for the tokens the inputs of the model can produce
_hash_token(tok) ==
    CASE tok = <<"a", "b">> -> <<6270, 62531>>
      [] tok = <<"c", "d">> -> <<26725, 44723>>
      [] tok = <<"a", "b", "c">> -> <<36865, 20632>>
      [] tok = <<"b", "c", "d">> -> <<54455, 49796>>
      [] tok = <<"a", "n", "d">> -> <<48733, 23863>>
      [] tok = <<"b", "e">> -> <<37129, 21929>>
      [] tok = <<"U4E2D", "U6587">> -> <<42938, 49699>>
      [] tok = <<"k", "w", ":", "a", "b">> -> <<39010, 56779>>
      [] tok = <<"k", "w", ":", "c", "d">> -> <<58480, 65483>>
      [] tok = <<"k", "w", ":", "a", "b", "c">> -> <<2755, 26630>>
      [] tok = <<"k", "w", ":", "b", "c", "d">> -> <<35725, 63289>>
      [] tok = <<"k", "w", ":", "a", "n", "d">> -> <<36323, 15952>>
      [] tok = <<"k", "w", ":", "b", "e">> -> <<7744, 3058>>
      [] tok = <<"k", "w", ":", "U4E2D", "U6587">> -> <<11531, 14067>>

\* h % dim for h = <<hi, lo>>
HashMod(h, dim) == ((h[1] % dim) * (65536 % dim) + h[2]) % dim

_l2_normalize_inplace(vec) ==
    LET s2 == SumSeq([i \in DOMAIN vec |-> vec[i] * vec[i]])
        norm == ISqrt(s2)
    IN  IF s2 <= 0 THEN vec
        ELSE [i \in DOMAIN vec |-> (vec[i] * Scale) \div norm]

_dot(a, b) == SumSeq([i \in DOMAIN a |-> a[i] * b[i]]) \div Scale

_mean_vector(vs) ==
    IF vs = << >> THEN << >>
    ELSE LET dim == Len(vs[1])
             out == [i \in 1..dim |-> SumSeq([k \in DOMAIN vs |-> vs[k][i]])]
             avg == [i \in 1..dim |-> out[i] \div Len(vs)]
         IN  _l2_normalize_inplace(avg)

\* the vector of one paragraph: the body of the loop of _embed_paragraphs
L2CEmbedOne(p, kp, dim, lang) ==
    LET toks == _tokenize(p.text, lang)
                \o [i \in DOMAIN kp.keywords |-> <<"k", "w", ":">> \o kp.keywords[i]]
        cell == [i \in DOMAIN toks |-> HashMod(_hash_token(toks[i]), dim)]
        vec == [i \in 1..dim |-> Scale * Cardinality({k \in DOMAIN cell : cell[k] = i - 1})]
    IN  IF toks = << >> THEN [i \in 1..dim |-> 0]
        ELSE _l2_normalize_inplace(vec)

\* kp_by_pid.get(pid): the last keypoint of that paragraph id, if any
KpIndex(keypoints, pid) ==
    LET hits == {i \in DOMAIN keypoints : keypoints[i].paragraphId = pid}
    IN  IF hits = {} THEN 0 ELSE CHOOSE i \in hits : \A j \in hits : j <= i

_embed_paragraphs(paragraphs, keypoints, dim, lang) ==
    [i \in DOMAIN paragraphs |->
        LET k == KpIndex(keypoints, paragraphs[i].id)
            kp == IF k = 0 THEN [keywords |-> << >>] ELSE keypoints[k]
        IN  L2CEmbedOne(paragraphs[i], kp, dim, lang)]

---------------------------------------------------------------------------
(* learn2cards/pipeline.py: threshold clustering                           *)

\* f"p{n}", f"t{n}", f"c{n}"
MakeId(letter, n) == <<letter>> \o Decimal(n)

\* _pid_to_index: the 0-based position of the paragraph with that id; -1 stands
\* for the PipelineError raised when there is none
_pid_to_index(paragraphs, pid) ==
    LET n == ParseInt(Tail(pid))
        hits == {i \in DOMAIN paragraphs : paragraphs[i].id = pid}
    IN  IF /\ pid # << >> /\ Head(pid) = "p" /\ IsInt(Tail(pid))
           /\ 0 <= n - 1 /\ n - 1 < Len(paragraphs)
           /\ paragraphs[n].id = pid
        THEN n - 1
        ELSE IF hits # {} THEN (CHOOSE i \in hits : \A j \in hits : i <= j) - 1
        ELSE -1

\* max(range(len(sims)), key=lambda i: sims[i]): the first index of the maximum
FirstArgMax(sims) ==
    CHOOSE i \in DOMAIN sims :
        /\ \A j \in DOMAIN sims : sims[j] <= sims[i]
        /\ \A j \in 1..(i - 1) : sims[j] < sims[i]

L2CNewTopic(n, pid) ==
    [id |-> MakeId("t", n), title |-> << >>, memberIds |-> <<pid>>,
     summaryBullets |-> << >>]

\* topics[best_i]["memberIds"].append(pid); centroids[best_i] = _mean_vector(...)
L2CAssign(cl, paragraphs, vectors, best_i, pid) ==
    LET mids == Append(cl.topics[best_i].memberIds, pid)
    IN  [topics |-> [cl.topics EXCEPT ![best_i].memberIds = mids],
         centroids |-> [cl.centroids EXCEPT ![best_i] =
             _mean_vector([k \in DOMAIN mids |->
                              vectors[_pid_to_index(paragraphs, mids[k]) + 1]])]]

\* L2COpen as it would be with topics.insert(0, ...) and centroids.insert(0, ...)
L2COpenInFront(cl, pid, v) ==
    [topics |-> <<L2CNewTopic(Len(cl.topics) + 1, pid)>> \o cl.topics,
     centroids |-> <<v>> \o cl.centroids]

L2COpen(cl, pid, v) ==
    [topics |-> Append(cl.topics, L2CNewTopic(Len(cl.topics) + 1, pid)),
     centroids |-> Append(cl.centroids, v)]

\* L2CClusterStep as it would be with "best_sim > threshold"
L2CClusterStepStrict(cl, paragraphs, vectors, i, threshold, max_topics) ==
    LET pid == paragraphs[i].id
        v == vectors[i]
        sims == [j \in DOMAIN cl.centroids |-> _dot(v, cl.centroids[j])]
        best_i == FirstArgMax(sims)
        best_sim == sims[best_i]
    IN  IF cl.topics = << >> THEN L2COpen(cl, pid, v)
        ELSE IF best_sim > threshold THEN L2CAssign(cl, paragraphs, vectors, best_i, pid)
        ELSE IF Len(cl.topics) < max_topics THEN L2COpen(cl, pid, v)
        ELSE L2CAssign(cl, paragraphs, vectors, best_i, pid)

\* one iteration of "for p, v in zip(paragraphs, vectors)" of _cluster_threshold
\* for the i-th paragraph; cl = [topics, centroids]
L2CClusterStep(cl, paragraphs, vectors, i, threshold, max_topics) ==
    LET pid == paragraphs[i].id
        v == vectors[i]
        sims == [j \in DOMAIN cl.centroids |-> _dot(v, cl.centroids[j])]
        best_i == FirstArgMax(sims)
        best_sim == sims[best_i]
    IN  IF cl.topics = << >> THEN L2COpen(cl, pid, v)
        ELSE IF best_sim >= threshold THEN L2CAssign(cl, paragraphs, vectors, best_i, pid)
        ELSE IF Len(cl.topics) < max_topics THEN L2COpen(cl, pid, v)
        ELSE L2CAssign(cl, paragraphs, vectors, best_i, pid)

\* _dedupe: stripped, non-empty, first occurrences
_dedupe(items) ==
    LET keys == [i \in DOMAIN items |-> Strip(items[i])]
    IN  Unique(NonEmpty(keys))

RECURSIVE Concat(_)
Concat(seqs) == IF seqs = << >> THEN << >> ELSE Head(seqs) \o Concat(Tail(seqs))

UntitledZh == <<"U672A", "U547D", "U540D", "U4E3B", "U984C">>
UntitledEn == <<"U", "n", "t", "i", "t", "l", "e", "d", " ", "T", "o", "p", "i", "c">>
SepZh == <<"U3001">>
SepEn == <<" ", "/", " ">>

_title_from_keywords(keywords, lang) ==
    LET kws == NonEmpty(keywords)
        ranked == Ranked(kws)
        four == Prefix(ranked, TitleRanked)
        picked == IF Len(four) > TitleWords THEN Prefix(four, TitleWords) ELSE four
    IN  IF kws = << >> THEN (IF lang = "zh" THEN UntitledZh ELSE UntitledEn)
        ELSE IF lang = "zh" THEN Join(picked, SepZh) ELSE Join(picked, SepEn)

\* the naming loop at the end of _cluster_threshold, for one topic
L2CNameTopic(t, keypoints, lang) ==
    LET known == SelectIdx(t.memberIds,
                     {k \in DOMAIN t.memberIds : KpIndex(keypoints, t.memberIds[k]) # 0})
        kps == [k \in DOMAIN known |-> keypoints[KpIndex(keypoints, known[k])]]
        member_kws == Concat([k \in DOMAIN kps |-> kps[k].keywords])
        member_sents == [k \in DOMAIN kps |-> kps[k].sentence]
        bullets == NonEmpty(_dedupe(member_sents))
    IN  [t EXCEPT !.title = _title_from_keywords(member_kws, lang),
                  !.summaryBullets = Prefix(bullets, L2CSummaryBullets)]

L2CNameTopics(topics, keypoints, lang) ==
    [i \in DOMAIN topics |-> L2CNameTopic(topics[i], keypoints, lang)]

---------------------------------------------------------------------------
(* learn2cards/pipeline.py: cards                                          *)

NoContentBullet == <<"UFF08", "U6B64", "U5361", "U7247", "U76EE", "U524D", "U6C92", "U6709", "U5167", "U5BB9", "UFF09">>

\* "(k/2)" in full-width brackets, the suffix of the title of a split card
PartSuffix(k) == <<"UFF08">> \o Decimal(k) \o <<"/", "2", "UFF09">>

\* L2CChunks as it would be with "len(mids) >= 8"
L2CChunksFrom8(mids) ==
    LET cut == (Len(mids) + 1) \div 2
    IN  IF Len(mids) >= SplitAbove THEN <<Prefix(mids, cut), Drop(mids, cut)>>
        ELSE <<mids>>

\* the chunks of one topic: two when it has more than SplitAbove members
L2CChunks(mids) ==
    LET cut == (Len(mids) + 1) \div 2
    IN  IF Len(mids) > SplitAbove THEN <<Prefix(mids, cut), Drop(mids, cut)>>
        ELSE <<mids>>

\* the bullets of one chunk
L2CBullets(chunk, paragraphs, keypoints, lang, max_bullets, target_bullets) ==
    LET Raw(pid, ki) ==
            IF ki # 0 /\ keypoints[ki].sentence # << >>
            THEN Strip(keypoints[ki].sentence)
            ELSE _first_sentence(paragraphs[_pid_to_index(paragraphs, pid) + 1].text, lang)
        \* if len(bullets) > target_bullets: bullets = bullets[:target_bullets]
        Targeted(bullets) ==
            Prefix(IF Len(bullets) > target_bullets THEN Prefix(bullets, target_bullets)
                   ELSE bullets, max_bullets)
        \* if len(bullets) < 1: bullets = [the no-content bullet]
        Filled(bullets) == Targeted(IF Len(bullets) = 0 THEN <<NoContentBullet>> ELSE bullets)
        \* if len(bullets) > max_bullets: bullets = bullets[:max_bullets]
        Capped(bullets) ==
            Filled(IF Len(bullets) > max_bullets THEN Prefix(bullets, max_bullets)
                   ELSE bullets)
    IN  Capped(NonEmpty(_dedupe([k \in DOMAIN chunk |->
                                    Raw(chunk[k], KpIndex(keypoints, chunk[k]))])))

\* the cards of one topic, ids not yet given
L2CTopicCards(topic, paragraphs, keypoints, lang, max_bullets, target_bullets) ==
    LET chunks == L2CChunks(topic.memberIds)
        base == IF topic.title # << >> THEN topic.title ELSE UntitledZh
    IN  [k \in DOMAIN chunks |->
            [topicId |-> topic.id,
             title |-> IF Len(chunks) = 2 THEN base \o PartSuffix(k) ELSE base,
             bullets |-> L2CBullets(chunks[k], paragraphs, keypoints, lang,
                                    max_bullets, target_bullets)]]

\* cards.append({"id": f"c{len(cards)+1}", ...}) over all topics
NumberCards(cards) ==
    [i \in DOMAIN cards |->
        [id |-> MakeId("c", i), topicId |-> cards[i].topicId,
         title |-> cards[i].title, bullets |-> cards[i].bullets]]

_generate_cards(topics, paragraphs, keypoints, lang, max_bullets, target_bullets) ==
    NumberCards(Concat([i \in DOMAIN topics |->
        L2CTopicCards(topics[i], paragraphs, keypoints, lang, max_bullets,
                      target_bullets)]))

---------------------------------------------------------------------------
(* learn2cards/pipeline.py: deterministic order and ids                    *)

\* tuple order of the sort keys (int, str)
KeyLess(a, b) == a[1] < b[1] \/ (a[1] = b[1] /\ StrLess(a[2], b[2]))

\* sorted(items, key=...): Python's sort is stable
StableSort(items, keys) ==
    LET before(i, j) == KeyLess(keys[i], keys[j]) \/ (~KeyLess(keys[j], keys[i]) /\ i < j)
        rank(i) == Cardinality({j \in DOMAIN items : before(j, i)})
    IN  [r \in DOMAIN items |-> items[CHOOSE i \in DOMAIN items : rank(i) = r - 1]]

\* idx_by_pid.get(mid, 10**9)
IdxOfPid(paragraphs, pid) ==
    LET hits == {i \in DOMAIN paragraphs : paragraphs[i].id = pid}
    IN  IF hits = {} THEN Missing
        ELSE paragraphs[CHOOSE i \in hits : \A j \in hits : j <= i].idx

MinOf(S, default) == IF S = {} THEN default ELSE CHOOSE m \in S : \A x \in S : m <= x

topic_key(t, paragraphs) ==
    <<MinOf({IdxOfPid(paragraphs, t.memberIds[k]) : k \in DOMAIN t.memberIds}, Missing),
      t.title>>

\* _sort_topics_deterministic as it would be with the sort reversed
SortTopicsReversed(topics, paragraphs) ==
    LET up == StableSort(topics, [i \in DOMAIN topics |-> topic_key(topics[i], paragraphs)])
    IN  [i \in DOMAIN up |-> up[Len(up) + 1 - i]]

_sort_topics_deterministic(topics, paragraphs) ==
    StableSort(topics, [i \in DOMAIN topics |-> topic_key(topics[i], paragraphs)])

\* _reassign_topic_ids: the renumbered topics, and the old -> new id map
RenumberTopics(topics) ==
    [i \in DOMAIN topics |-> [topics[i] EXCEPT !.id = MakeId("t", i)]]
\* id_map[old] = new, a later topic overwriting an earlier one with the same id
TopicIdMap(topics) ==
    [old \in {topics[i].id : i \in DOMAIN topics} |->
        MakeId("t", CHOOSE i \in DOMAIN topics :
                        /\ topics[i].id = old
                        /\ \A j \in DOMAIN topics : topics[j].id = old => j <= i)]

\* c2["topicId"] = topic_id_map.get(tid, tid)
_remap_cards_topic_ids(cards, topic_id_map) ==
    [i \in DOMAIN cards |->
        [cards[i] EXCEPT !.topicId =
            IF @ \in DOMAIN topic_id_map THEN topic_id_map[@] ELSE @]]

\* topic_order.get(c["topicId"], 10**9): 0-based position of the topic
TopicOrder(topics, tid) ==
    LET hits == {i \in DOMAIN topics : topics[i].id = tid}
    IN  IF hits = {} THEN Missing ELSE (CHOOSE i \in hits : \A j \in hits : j <= i) - 1

_sort_cards_deterministic(cards, topics) ==
    StableSort(cards, [i \in DOMAIN cards |->
                          <<TopicOrder(topics, cards[i].topicId), cards[i].title>>])

_reassign_card_ids(cards) ==
    [i \in DOMAIN cards |-> [cards[i] EXCEPT !.id = MakeId("c", i)]]

---------------------------------------------------------------------------
(* learn2cards/validate.py: validate_deck                                  *)
(* An issue is [rule, at]: the rule that failed and the 0-based position   *)
(* of the offending element (-1 when the rule is about the whole deck).    *)
(* The values of the model are well typed, so the isinstance tests of the  *)
(* source are decided by the shape of the deck and only their value parts  *)
(* are stated.                                                             *)

Issue(rule, at) == [rule |-> rule, at |-> at]
\* the issues of the elements of a list, in list order
IssuesOver(items, IssuesOf(_)) == Concat([i \in DOMAIN items |-> IssuesOf(i)])
If(cond, issue) == IF cond THEN <<issue>> ELSE << >>

\* paragraph_idx_by_id after the first n paragraphs: ids with a valid idx
VParagraphIds(paragraphs, n) ==
    {paragraphs[i].id : i \in {k \in 1..n : paragraphs[k].id # << >> /\ paragraphs[k].idx >= 0}}
\* paragraph_idx_by_id[pid]: the idx of the last such paragraph
VParagraphIdx(paragraphs, pid) ==
    paragraphs[CHOOSE i \in DOMAIN paragraphs :
        /\ paragraphs[i].id = pid /\ paragraphs[i].idx >= 0
        /\ \A j \in DOMAIN paragraphs :
              (paragraphs[j].id = pid /\ paragraphs[j].idx >= 0) => j <= i].idx

VMeta(meta) ==
    If(meta.schemaVersion # "1.0.0", Issue("meta.schemaVersion", -1))

VParagraph(paragraphs, i) ==
    LET p == paragraphs[i]
    IN  IF p.id = << >> THEN <<Issue("paragraphs.id", i - 1)>>
        ELSE If(p.id \in VParagraphIds(paragraphs, i - 1), Issue("paragraphs.id.duplicate", i - 1))
             \o If(p.idx < 0, Issue("paragraphs.idx", i - 1))
             \o If(Strip(p.text) = << >>, Issue("paragraphs.text", i - 1))

VKeypoint(deck, i) ==
    LET kp == deck.keypoints[i]
        kws == kp.keywords
    IN  IF kp.paragraphId = << >> THEN <<Issue("keypoints.paragraphId", i - 1)>>
        ELSE If(kp.paragraphId \notin VParagraphIds(deck.paragraphs, Len(deck.paragraphs)),
                Issue("keypoints.paragraphId.unknown", i - 1))
             \o If(Strip(kp.sentence) = << >>, Issue("keypoints.sentence", i - 1))
             \o (IF \E k \in DOMAIN kws : kws[k] = << >>
                 THEN <<Issue("keypoints.keywords", i - 1)>>
                 ELSE If(~(1 <= Len(kws) /\ Len(kws) <= VMaxKeywords),
                         Issue("keypoints.keywords.length", i - 1)))

\* the topics the loop does not leave at "continue" before counting members
VTopicCounted(t) == t.id # << >> /\ \A k \in DOMAIN t.memberIds : t.memberIds[k] # << >>

VTopic(deck, i) ==
    LET t == deck.topics[i]
        known == VParagraphIds(deck.paragraphs, Len(deck.paragraphs))
    IN  IF t.id = << >> THEN <<Issue("topics.id", i - 1)>>
        ELSE If(\E j \in 1..(i - 1) : deck.topics[j].id = t.id,
                Issue("topics.id.duplicate", i - 1))
             \o If(Strip(t.title) = << >>, Issue("topics.title", i - 1))
             \o (IF ~VTopicCounted(t) THEN <<Issue("topics.memberIds", i - 1)>>
                 ELSE If(Len(t.memberIds) < 1, Issue("topics.memberIds.empty", i - 1))
                      \o IssuesOver(t.memberIds,
                            LAMBDA k : If(t.memberIds[k] \notin known,
                                          Issue("topics.memberIds.unknown", i - 1))))

\* topic_min_idx[tid], for the last counted topic with that id
VTopicMinIdx(deck, tid) ==
    LET hits == {i \in DOMAIN deck.topics :
                    deck.topics[i].id = tid /\ VTopicCounted(deck.topics[i])}
        known == VParagraphIds(deck.paragraphs, Len(deck.paragraphs))
    IN  IF hits = {} THEN Missing
        ELSE LET t == deck.topics[CHOOSE i \in hits : \A j \in hits : j <= i]
             IN  MinOf({VParagraphIdx(deck.paragraphs, t.memberIds[k]) :
                          k \in {m \in DOMAIN t.memberIds : t.memberIds[m] \in known}},
                       Missing)

VCard(deck, i) ==
    LET c == deck.cards[i]
        \* card_ids: the ids accepted before this card
        earlier == {deck.cards[j].id : j \in {k \in 1..(i - 1) : deck.cards[k].id # << >>}}
        topic_ids == {deck.topics[j].id : j \in {k \in DOMAIN deck.topics : deck.topics[k].id # << >>}}
    IN  (IF c.id = << >> THEN <<Issue("cards.id", i - 1)>>
         ELSE If(c.id \in earlier, Issue("cards.id.duplicate", i - 1)))
        \o (IF c.topicId = << >> THEN <<Issue("cards.topicId", i - 1)>>
            ELSE If(c.topicId \notin topic_ids, Issue("cards.topicId.unknown", i - 1)))
        \o If(Strip(c.title) = << >>, Issue("cards.title", i - 1))
        \o (IF \E k \in DOMAIN c.bullets : Strip(c.bullets[k]) = << >>
            THEN <<Issue("cards.bullets", i - 1)>>
            ELSE If(~(1 <= Len(c.bullets) /\ Len(c.bullets) <= VMaxBullets),
                    Issue("cards.bullets.length", i - 1)))

VStats(deck) ==
    LET s == deck.stats
    IN  If(s.totalParagraphs < 0, Issue("stats.totalParagraphs.int", -1))
        \o If(s.totalKeypoints < 0, Issue("stats.totalKeypoints.int", -1))
        \o If(s.totalTopics < 0, Issue("stats.totalTopics.int", -1))
        \o If(s.totalCards < 0, Issue("stats.totalCards.int", -1))
        \o If(s.totalParagraphs # Len(deck.paragraphs), Issue("stats.totalParagraphs", -1))
        \o If(s.totalKeypoints # Len(deck.keypoints), Issue("stats.totalKeypoints", -1))
        \o If(s.totalTopics # Len(deck.topics), Issue("stats.totalTopics", -1))
        \o If(s.totalCards # Len(deck.cards), Issue("stats.totalCards", -1))

IsSorted(xs) == \A i \in 1..(Len(xs) - 1) : xs[i] <= xs[i + 1]

VOrder(deck) ==
    LET mins == [i \in DOMAIN deck.topics |-> VTopicMinIdx(deck, deck.topics[i].id)]
        orders == [i \in DOMAIN deck.cards |-> TopicOrder(deck.topics, deck.cards[i].topicId)]
    IN  IF deck.topics # << >> /\ VParagraphIds(deck.paragraphs, Len(deck.paragraphs)) # {}
        THEN If(~IsSorted(mins), Issue("topics.order", -1))
             \o If(~IsSorted(orders), Issue("cards.order", -1))
        ELSE << >>

\* member_count_by_topic, in insertion order of its keys
VSplitRule(deck) ==
    LET counted == SelectIdx(deck.topics, {i \in DOMAIN deck.topics : VTopicCounted(deck.topics[i])})
        tids == Unique([i \in DOMAIN counted |-> counted[i].id])
        member_count(tid) ==
            Len(counted[CHOOSE i \in DOMAIN counted :
                    /\ counted[i].id = tid
                    /\ \A j \in DOMAIN counted : counted[j].id = tid => j <= i].memberIds)
        actual(tid) == Cardinality({i \in DOMAIN deck.cards : deck.cards[i].topicId = tid})
    IN  IssuesOver(tids, LAMBDA k :
            If(actual(tids[k]) # (IF member_count(tids[k]) > VSplitAbove THEN 2 ELSE 1),
               Issue("topics.cards", k - 1)))

\* ValidationResult.errors
validate_deck_errors(deck) ==
    VMeta(deck.meta)
    \o IssuesOver(deck.paragraphs, LAMBDA i : VParagraph(deck.paragraphs, i))
    \o IssuesOver(deck.keypoints, LAMBDA i : VKeypoint(deck, i))
    \o If(Len(deck.topics) < 1, Issue("topics.none", -1))
    \o IssuesOver(deck.topics, LAMBDA i : VTopic(deck, i))
    \o IssuesOver(deck.cards, LAMBDA i : VCard(deck, i))
    \o VStats(deck)
    \o VOrder(deck)
    \o VSplitRule(deck)

validate_deck(deck) ==
    LET errors == validate_deck_errors(deck)
    IN  [ok |-> Len(errors) = 0, errors |-> errors]

---------------------------------------------------------------------------
(* JSON documents, as json.loads gives them to the validators: a value is  *)
(* [kind, v] with kind "null", "bool", "int", "str", "list" or "dict"; a   *)
(* str holds its characters, a list its items, a dict a function from its  *)
(* keys to values.                                                         *)

JNull == [kind |-> "null", v |-> << >>]
JBool(b) == [kind |-> "bool", v |-> b]
JInt(n) == [kind |-> "int", v |-> n]
JStr(s) == [kind |-> "str", v |-> s]
JList(items) == [kind |-> "list", v |-> items]
JDict(f) == [kind |-> "dict", v |-> f]
EmptyDict == JDict([k \in {} |-> JNull])

\* isinstance(j, str), isinstance(j, list), isinstance(j, dict)
IsStr(j) == j.kind = "str"
IsList(j) == j.kind = "list"
IsDict(j) == j.kind = "dict"
\* isinstance(j, int): bool is a subclass of int
IsInteger(j) == j.kind \in {"int", "bool"}
IntOf(j) == IF j.kind = "bool" THEN (IF j.v THEN 1 ELSE 0) ELSE j.v
\* hash(j) does not raise TypeError
Hashable(j) == j.kind \notin {"list", "dict"}
\* isinstance(j, str) and j
NonEmptyStr(j) == IsStr(j) /\ j.v # << >>
\* isinstance(j, str) and j.strip()
NonBlankStr(j) == IsStr(j) /\ Strip(j.v) # << >>
\* k in d, d.get(k)
Has(d, k) == k \in DOMAIN d.v
Get(d, k) == IF k \in DOMAIN d.v THEN d.v[k] ELSE JNull
\* isinstance(j, list) and all items are strings that meet Ok
IsListOf(j, Ok(_)) == IsList(j) /\ \A i \in DOMAIN j.v : Ok(j.v[i])

\* the characters of the strings the decks hold as whole words
CharsOf(word) ==
    CASE word = "text" -> <<"t", "e", "x", "t">>
      [] word = "in.md" -> <<"i", "n", ".", "m", "d">>
      [] word = "1.0.0" -> <<"1", ".", "0", ".", "0">>
      [] word = "en" -> <<"e", "n">>
      [] word = "zh" -> <<"z", "h">>
      [] word = "auto" -> <<"a", "u", "t", "o">>
      [] OTHER -> << >>

\* json.loads(to_pretty_json(deck)): the deck of analyze_text as a document;
\* headingLevel and sectionPath are present only where analyze_text set them
ParagraphJson(p) ==
    LET base == [k \in {"id", "idx", "text"} |->
                    CASE k = "id" -> JStr(p.id)
                      [] k = "idx" -> JInt(p.idx)
                      [] OTHER -> JStr(p.text)]
        level == IF p.headingLevel # 0
                 THEN [k \in {"headingLevel"} |-> JInt(p.headingLevel)]
                 ELSE [k \in {} |-> JNull]
        path == IF p.sectionPath # << >>
                THEN [k \in {"sectionPath"} |->
                        JList([i \in DOMAIN p.sectionPath |-> JStr(p.sectionPath[i])])]
                ELSE [k \in {} |-> JNull]
    IN  JDict(base @@ level @@ path)

StrList(xs) == JList([i \in DOMAIN xs |-> JStr(xs[i])])

\* deck["_debug"], the key analyze_text adds under opt.verbose:
\* dataclasses.asdict(opt), topic_threshold in units of 1 / Scale
DebugJson(debug) ==
    JDict([resolvedLanguage |-> JStr(CharsOf(debug.resolvedLanguage)),
           options |->
               JDict([language |-> JStr(CharsOf(debug.options.language)),
                      max_topics |-> JInt(debug.options.max_topics),
                      topic_threshold |-> JInt(debug.options.topic_threshold),
                      max_bullets_per_card |-> JInt(debug.options.max_bullets_per_card),
                      target_bullets_per_card |-> JInt(debug.options.target_bullets_per_card),
                      embedding_dim |-> JInt(debug.options.embedding_dim),
                      seed |-> JInt(debug.options.seed),
                      source |-> JStr(CharsOf(debug.options.source)),
                      verbose |-> JBool(debug.options.verbose),
                      max_chars |-> JInt(debug.options.max_chars)])])

DeckJson(deck) ==
    JDict([k \in {"meta", "paragraphs", "keypoints", "topics", "cards", "stats"}
                  \cup (IF deck.debug # << >> THEN {"_debug"} ELSE {}) |->
        CASE k = "meta" ->
                JDict([source |-> JStr(CharsOf(deck.meta.source)),
                       generatedAt |-> JStr(Decimal(deck.meta.generatedAt)),
                       schemaVersion |-> JStr(CharsOf(deck.meta.schemaVersion))])
          [] k = "paragraphs" ->
                JList([i \in DOMAIN deck.paragraphs |-> ParagraphJson(deck.paragraphs[i])])
          [] k = "keypoints" ->
                JList([i \in DOMAIN deck.keypoints |->
                    JDict([paragraphId |-> JStr(deck.keypoints[i].paragraphId),
                           sentence |-> JStr(deck.keypoints[i].sentence),
                           keywords |-> StrList(deck.keypoints[i].keywords)])])
          [] k = "topics" ->
                JList([i \in DOMAIN deck.topics |->
                    JDict([id |-> JStr(deck.topics[i].id),
                           title |-> JStr(deck.topics[i].title),
                           memberIds |-> StrList(deck.topics[i].memberIds),
                           summaryBullets |-> StrList(deck.topics[i].summaryBullets)])])
          [] k = "cards" ->
                JList([i \in DOMAIN deck.cards |->
                    JDict([id |-> JStr(deck.cards[i].id),
                           topicId |-> JStr(deck.cards[i].topicId),
                           title |-> JStr(deck.cards[i].title),
                           bullets |-> StrList(deck.cards[i].bullets)])])
          [] k = "_debug" -> DebugJson(deck.debug[1])
          [] OTHER ->
                JDict([totalParagraphs |-> JInt(deck.stats.totalParagraphs),
                       totalKeypoints |-> JInt(deck.stats.totalKeypoints),
                       totalTopics |-> JInt(deck.stats.totalTopics),
                       totalCards |-> JInt(deck.stats.totalCards)])])

\* what a call of a validator gives: the errors it returns, or raised when an
\* exception leaves it
Returns(errors) == [raised |-> FALSE, errors |-> errors]
Raises(exception) == [raised |-> TRUE, errors |-> <<Issue(exception, -1)>>]

\* learn2cards/validate.py validate_deck(deck: Any)
validate_deck_any(deck) ==
    LET TopKeys == <<"meta", "paragraphs", "keypoints", "topics", "cards", "stats">>
        MetaKeys == <<"source", "generatedAt", "schemaVersion">>
        StatKeys == <<"totalParagraphs", "totalKeypoints", "totalTopics", "totalCards">>
        \* lines 37-57: a field that is no array counts as [], stats as {}
        list(k) == IF IsList(deck.v[k]) THEN deck.v[k].v ELSE << >>
        paragraphs == list("paragraphs")
        keypoints == list("keypoints")
        topics == list("topics")
        cards == list("cards")
        stats == IF IsDict(deck.v.stats) THEN deck.v.stats ELSE EmptyDict
        meta == deck.v.meta
        VMetaAny ==
            IF ~IsDict(meta) THEN <<Issue("meta", -1)>>
            ELSE IssuesOver(MetaKeys, LAMBDA k : If(~Has(meta, MetaKeys[k]), Issue("meta.missing", k - 1)))
                 \o If(~(IsStr(Get(meta, "schemaVersion"))
                            /\ Get(meta, "schemaVersion").v = CharsOf("1.0.0")),
                       Issue("meta.schemaVersion", -1))
        VShapes ==
            IssuesOver(<<"paragraphs", "keypoints", "topics", "cards">>,
                       LAMBDA k : If(~IsList(deck.v[TopKeys[k + 1]]), Issue("array", k)))
            \o If(~IsDict(deck.v.stats), Issue("stats", -1))
        \* paragraph_idx_by_id: the paragraphs that reach line 78
        Indexed(p) == /\ IsDict(p) /\ NonEmptyStr(Get(p, "id"))
                      /\ IsInteger(Get(p, "idx")) /\ IntOf(Get(p, "idx")) >= 0
        idx_ids(n) == {paragraphs[k].v.id.v : k \in {j \in 1..n : Indexed(paragraphs[j])}}
        known == idx_ids(Len(paragraphs))
        idx_of(pid) ==
            IntOf(paragraphs[CHOOSE i \in DOMAIN paragraphs :
                    /\ Indexed(paragraphs[i]) /\ paragraphs[i].v.id.v = pid
                    /\ \A j \in DOMAIN paragraphs :
                          (Indexed(paragraphs[j]) /\ paragraphs[j].v.id.v = pid) => j <= i].v.idx)
        VParagraphAny(i) ==
            LET p == paragraphs[i]
            IN  IF ~IsDict(p) THEN <<Issue("paragraphs.object", i - 1)>>
                ELSE IF ~NonEmptyStr(Get(p, "id")) THEN <<Issue("paragraphs.id", i - 1)>>
                ELSE If(p.v.id.v \in idx_ids(i - 1), Issue("paragraphs.id.duplicate", i - 1))
                     \o If(~Indexed(p), Issue("paragraphs.idx", i - 1))
                     \o If(~NonBlankStr(Get(p, "text")), Issue("paragraphs.text", i - 1))
                     \o If(Has(p, "headingLevel") /\ ~IsInteger(Get(p, "headingLevel")),
                           Issue("paragraphs.headingLevel", i - 1))
                     \o If(Has(p, "sectionPath") /\ ~IsListOf(Get(p, "sectionPath"), IsStr),
                           Issue("paragraphs.sectionPath", i - 1))
        VKeypointAny(i) ==
            LET kp == keypoints[i]
            IN  IF ~IsDict(kp) THEN <<Issue("keypoints.object", i - 1)>>
                ELSE IF ~NonEmptyStr(Get(kp, "paragraphId"))
                THEN <<Issue("keypoints.paragraphId", i - 1)>>
                ELSE If(kp.v.paragraphId.v \notin known, Issue("keypoints.paragraphId.unknown", i - 1))
                     \o If(~NonBlankStr(Get(kp, "sentence")), Issue("keypoints.sentence", i - 1))
                     \o (IF ~IsListOf(Get(kp, "keywords"), NonEmptyStr)
                         THEN <<Issue("keypoints.keywords", i - 1)>>
                         ELSE If(~(1 <= Len(kp.v.keywords.v) /\ Len(kp.v.keywords.v) <= VMaxKeywords),
                                 Issue("keypoints.keywords.length", i - 1)))
        \* topic_ids: the topics that pass line 124; those that reach line 141
        Named(t) == IsDict(t) /\ NonEmptyStr(Get(t, "id"))
        Counted(t) == Named(t) /\ IsListOf(Get(t, "memberIds"), NonEmptyStr)
        VTopicAny(i) ==
            LET t == topics[i]
            IN  IF ~IsDict(t) THEN <<Issue("topics.object", i - 1)>>
                ELSE IF ~NonEmptyStr(Get(t, "id")) THEN <<Issue("topics.id", i - 1)>>
                ELSE If(\E j \in 1..(i - 1) : Named(topics[j]) /\ topics[j].v.id.v = t.v.id.v,
                        Issue("topics.id.duplicate", i - 1))
                     \o If(~NonBlankStr(Get(t, "title")), Issue("topics.title", i - 1))
                     \o (IF ~Counted(t) THEN <<Issue("topics.memberIds", i - 1)>>
                         ELSE If(Len(t.v.memberIds.v) < 1, Issue("topics.memberIds.empty", i - 1))
                              \o IssuesOver(t.v.memberIds.v,
                                    LAMBDA k : If(t.v.memberIds.v[k].v \notin known,
                                                  Issue("topics.memberIds.unknown", i - 1)))
                              \o If(Has(t, "summaryBullets")
                                        /\ ~IsListOf(Get(t, "summaryBullets"), IsStr),
                                    Issue("topics.summaryBullets", i - 1)))
        \* topic_min_idx.get(tid, 10**9) for a string tid
        min_idx(tid) ==
            LET hits == {i \in DOMAIN topics : Counted(topics[i]) /\ topics[i].v.id.v = tid}
                Last(S) == topics[CHOOSE i \in S : \A j \in S : j <= i].v.memberIds.v
                MinIn(mids) == MinOf({idx_of(mids[k].v) : k \in {m \in DOMAIN mids : mids[m].v \in known}},
                                     Missing)
            IN  IF hits = {} THEN Missing ELSE MinIn(Last(hits))
        Filed(c) == IsDict(c) /\ NonEmptyStr(Get(c, "topicId"))
        VCardAny(i) ==
            LET c == cards[i]
                Fresh(j) == /\ IsDict(cards[j]) /\ NonEmptyStr(Get(cards[j], "id"))
            IN  IF ~IsDict(c) THEN <<Issue("cards.object", i - 1)>>
                ELSE (IF ~NonEmptyStr(Get(c, "id")) THEN <<Issue("cards.id", i - 1)>>
                      ELSE If(\E j \in 1..(i - 1) : Fresh(j) /\ cards[j].v.id.v = c.v.id.v,
                              Issue("cards.id.duplicate", i - 1)))
                     \o (IF ~NonEmptyStr(Get(c, "topicId")) THEN <<Issue("cards.topicId", i - 1)>>
                         ELSE If(\A j \in DOMAIN topics : ~(Named(topics[j]) /\ topics[j].v.id.v = c.v.topicId.v),
                                 Issue("cards.topicId.unknown", i - 1)))
                     \o If(~NonBlankStr(Get(c, "title")), Issue("cards.title", i - 1))
                     \o (IF ~IsListOf(Get(c, "bullets"), NonBlankStr)
                         THEN <<Issue("cards.bullets", i - 1)>>
                         ELSE If(~(1 <= Len(c.v.bullets.v) /\ Len(c.v.bullets.v) <= VMaxBullets),
                                 Issue("cards.bullets.length", i - 1)))
        \* lines 193-208: _require_int for each total, then the four comparisons
        Wrong(k, n) == IsInteger(Get(stats, k)) /\ IntOf(Get(stats, k)) # n
        VStatsAny ==
            IssuesOver(StatKeys, LAMBDA k :
                If(~IsInteger(Get(stats, StatKeys[k])) \/ IntOf(Get(stats, StatKeys[k])) < 0,
                   Issue("stats." \o StatKeys[k] \o ".int", -1)))
            \o If(Wrong("totalParagraphs", Len(paragraphs)), Issue("stats.totalParagraphs", -1))
            \o If(Wrong("totalKeypoints", Len(keypoints)), Issue("stats.totalKeypoints", -1))
            \o If(Wrong("totalTopics", Len(topics)), Issue("stats.totalTopics", -1))
            \o If(Wrong("totalCards", Len(cards)), Issue("stats.totalCards", -1))
        \* lines 211-227
        Ordered == topics # << >> /\ known # {}
        \* line 213: topic_min_idx.get(t.get("id", ""), 10**9) hashes the id
        Unhashable == \E i \in DOMAIN topics :
                         IsDict(topics[i]) /\ Has(topics[i], "id") /\ ~Hashable(topics[i].v.id)
        dicts == SelectSeq(topics, IsDict)
        mins == [i \in DOMAIN dicts |->
                    IF IsStr(Get(dicts[i], "id")) THEN min_idx(dicts[i].v.id.v) ELSE Missing]
        topic_order(tid) ==
            LET hits == {i \in DOMAIN topics :
                            /\ IsDict(topics[i]) /\ IsStr(Get(topics[i], "id"))
                            /\ topics[i].v.id.v = tid}
            IN  IF hits = {} THEN Missing ELSE (CHOOSE i \in hits : \A j \in hits : j <= i) - 1
        titled == SelectSeq(cards, LAMBDA c : IsDict(c) /\ IsStr(Get(c, "topicId")))
        card_topic_orders == [i \in DOMAIN titled |-> topic_order(titled[i].v.topicId.v)]
        VOrderAny ==
            IF ~Ordered THEN << >>
            ELSE If(~IsSorted(mins), Issue("topics.order", -1))
                 \o If(~IsSorted(card_topic_orders), Issue("cards.order", -1))
        \* lines 230-236: member_count_by_topic in insertion order
        counted == SelectSeq(topics, Counted)
        tids == Unique([i \in DOMAIN counted |-> counted[i].v.id.v])
        member_count(tid) ==
            Len(counted[CHOOSE i \in DOMAIN counted :
                    /\ counted[i].v.id.v = tid
                    /\ \A j \in DOMAIN counted : counted[j].v.id.v = tid => j <= i].v.memberIds.v)
        actual(tid) == Cardinality({i \in DOMAIN cards : Filed(cards[i]) /\ cards[i].v.topicId.v = tid})
        VSplitAny ==
            IssuesOver(tids, LAMBDA k :
                If(actual(tids[k]) # (IF member_count(tids[k]) > VSplitAbove THEN 2 ELSE 1),
                   Issue("topics.cards", k - 1)))
    IN  IF ~IsDict(deck) THEN Returns(<<Issue("root", -1)>>)
        ELSE IF \E k \in DOMAIN TopKeys : ~Has(deck, TopKeys[k])
        THEN Returns(IssuesOver(TopKeys, LAMBDA k : If(~Has(deck, TopKeys[k]), Issue("missing", k - 1))))
        ELSE IF Ordered /\ Unhashable THEN Raises("TypeError")
        ELSE Returns(VMetaAny \o VShapes
                     \o IssuesOver(paragraphs, VParagraphAny)
                     \o IssuesOver(keypoints, VKeypointAny)
                     \o If(Len(topics) < 1, Issue("topics.none", -1))
                     \o IssuesOver(topics, VTopicAny)
                     \o IssuesOver(cards, VCardAny)
                     \o VStatsAny \o VOrderAny \o VSplitAny)

\* a == b for two values that can be keys of a dict: None, bool/int by value, str
PyEq(a, b) ==
    \/ a.kind = "null" /\ b.kind = "null"
    \/ IsInteger(a) /\ IsInteger(b) /\ IntOf(a) = IntOf(b)
    \/ IsStr(a) /\ IsStr(b) /\ a.v = b.v
\* bool(j), as in "x or []"
Truthy(j) ==
    CASE j.kind = "null" -> FALSE
      [] j.kind = "bool" -> j.v
      [] j.kind = "int" -> j.v # 0
      [] j.kind = "dict" -> DOMAIN j.v # {}
      [] OTHER -> j.v # << >>

\* backend/agent_a.py validate_deck(deck)
agent_a_validate_deck(deck) ==
    LET TopKeys == <<"meta", "paragraphs", "keypoints", "topics", "cards", "stats">>
        StatKeys == <<"totalParagraphs", "totalKeypoints", "totalTopics", "totalCards">>
        meta == deck.v.meta
        paragraphs == deck.v.paragraphs.v
        keypoints == deck.v.keypoints.v
        topics == deck.v.topics.v
        cards == deck.v.cards.v
        stats == deck.v.stats
        VMetaA ==
            IF ~IsDict(meta) THEN <<Issue("meta", -1)>>
            ELSE If(~(IsStr(Get(meta, "schemaVersion"))
                        /\ Get(meta, "schemaVersion").v = CharsOf("1.0.0")),
                    Issue("meta.schemaVersion", -1))
                 \o If(~NonEmptyStr(Get(meta, "source")), Issue("meta.source", -1))
                 \o If(~NonEmptyStr(Get(meta, "generatedAt")), Issue("meta.generatedAt", -1))
        \* lines 612-626: the first field of the wrong shape ends the validation
        Shapes == <<IsList(deck.v.paragraphs), IsList(deck.v.keypoints), IsList(deck.v.topics),
                    IsList(deck.v.cards), IsDict(deck.v.stats)>>
        \* pid_to_idx: the first paragraph of each id, at its position
        Named(p) == IsDict(p) /\ NonEmptyStr(Get(p, "id"))
        First(i) == /\ Named(paragraphs[i])
                    /\ \A j \in 1..(i - 1) :
                          ~(Named(paragraphs[j]) /\ paragraphs[j].v.id.v = paragraphs[i].v.id.v)
        pids == {paragraphs[i].v.id.v : i \in {j \in DOMAIN paragraphs : First(j)}}
        pid_to_idx(pid) == (CHOOSE i \in DOMAIN paragraphs : First(i) /\ paragraphs[i].v.id.v = pid) - 1
        Known(x) == IsStr(x) /\ x.v \in pids
        VParagraphA(i) ==
            LET p == paragraphs[i]
                hl == Get(p, "headingLevel")
                sp == Get(p, "sectionPath")
            IN  IF ~IsDict(p) THEN <<Issue("paragraphs.object", i - 1)>>
                ELSE IF ~NonEmptyStr(Get(p, "id")) THEN <<Issue("paragraphs.id", i - 1)>>
                ELSE IF ~First(i) THEN <<Issue("paragraphs.id.duplicate", i - 1)>>
                ELSE If(~(IsInteger(Get(p, "idx")) /\ IntOf(Get(p, "idx")) = i - 1),
                        Issue("paragraphs.idx", i - 1))
                     \o If(~NonEmptyStr(Get(p, "text")), Issue("paragraphs.text", i - 1))
                     \o If(hl.kind # "null" /\ ~(IsInteger(hl) /\ IntOf(hl) >= 1 /\ IntOf(hl) <= 6),
                           Issue("paragraphs.headingLevel", i - 1))
                     \o If(sp.kind # "null" /\ ~IsListOf(sp, NonEmptyStr),
                           Issue("paragraphs.sectionPath", i - 1))
        Covers(kp) == IsDict(kp) /\ Known(Get(kp, "paragraphId"))
        VKeypointA(i) ==
            LET kp == keypoints[i]
                kws == Get(kp, "keywords")
            IN  IF ~IsDict(kp) THEN <<Issue("keypoints.object", i - 1)>>
                ELSE If(~Known(Get(kp, "paragraphId")), Issue("keypoints.paragraphId", i - 1))
                     \o If(~IsStr(Get(kp, "sentence")), Issue("keypoints.sentence", i - 1))
                     \o If(~(IsListOf(kws, NonEmptyStr) /\ 1 <= Len(kws.v) /\ Len(kws.v) <= VMaxKeywords),
                           Issue("keypoints.keywords", i - 1))
        \* lines 673-674
        kp_seen == {keypoints[i].v.paragraphId.v : i \in {j \in DOMAIN keypoints : Covers(keypoints[j])}}
        VCoverage == If(Cardinality(kp_seen) # Len(paragraphs), Issue("keypoints.coverage", -1))
        Titled(t) == IsDict(t) /\ NonEmptyStr(Get(t, "id"))
        tid_set == {topics[i].v.id.v : i \in {j \in DOMAIN topics : Titled(topics[j])}}
        VTopicA(i) ==
            LET t == topics[i]
                members == Get(t, "memberIds")
                sb == Get(t, "summaryBullets")
            IN  IF ~IsDict(t) THEN <<Issue("topics.object", i - 1)>>
                ELSE (IF ~NonEmptyStr(Get(t, "id")) THEN <<Issue("topics.id", i - 1)>>
                      ELSE If(\E j \in 1..(i - 1) : Titled(topics[j]) /\ topics[j].v.id.v = t.v.id.v,
                              Issue("topics.id.duplicate", i - 1)))
                     \o If(~NonEmptyStr(Get(t, "title")), Issue("topics.title", i - 1))
                     \o If(~(IsListOf(members, Known) /\ members.v # << >>),
                           Issue("topics.memberIds", i - 1))
                     \o If(sb.kind # "null" /\ ~IsListOf(sb, NonEmptyStr),
                           Issue("topics.summaryBullets", i - 1))
        \* line 713: c.get("topicId") not in tid_set hashes the topicId
        VCardA(i) ==
            LET c == cards[i]
                bullets == Get(c, "bullets")
            IN  IF ~IsDict(c) THEN <<Issue("cards.object", i - 1)>>
                ELSE (IF ~NonEmptyStr(Get(c, "id")) THEN <<Issue("cards.id", i - 1)>>
                      ELSE If(\E j \in 1..(i - 1) :
                                  /\ IsDict(cards[j]) /\ NonEmptyStr(Get(cards[j], "id"))
                                  /\ cards[j].v.id.v = c.v.id.v,
                              Issue("cards.id.duplicate", i - 1)))
                     \o If(~(IsStr(Get(c, "topicId")) /\ c.v.topicId.v \in tid_set),
                           Issue("cards.topicId", i - 1))
                     \o If(~NonEmptyStr(Get(c, "title")), Issue("cards.title", i - 1))
                     \o If(~(IsListOf(bullets, NonEmptyStr) /\ 1 <= Len(bullets.v)
                                /\ Len(bullets.v) <= VMaxBullets),
                           Issue("cards.bullets", i - 1))
        Expected == <<Len(paragraphs), Len(keypoints), Len(topics), Len(cards)>>
        VStatsA ==
            IssuesOver(StatKeys, LAMBDA k :
                If(~(IsInteger(Get(stats, StatKeys[k])) /\ IntOf(Get(stats, StatKeys[k])) = Expected[k]),
                   Issue("stats." \o StatKeys[k], -1)))
        \* lines 733-742: t.get("memberIds") or [], then min(pid_to_idx[m] for m in members);
        \* a string gives its characters, the keys of a dict name no paragraph, any
        \* exception is caught
        Members(t) ==
            LET members == Get(t, "memberIds")
            IN  IF ~Truthy(members) THEN << >>
                ELSE IF IsStr(members) THEN [k \in DOMAIN members.v |-> JStr(<<members.v[k]>>)]
                ELSE members.v
        HasMin(t) == /\ IsDict(t) /\ Get(t, "memberIds").kind \in {"str", "list"}
                     /\ Members(t) # << >>
                     /\ \A k \in DOMAIN Members(t) : Known(Members(t)[k])
        topic_min_idxs == [i \in DOMAIN topics |->
                              MinOf({pid_to_idx(Members(topics[i])[k].v) : k \in DOMAIN Members(topics[i])}, 0)]
        VTopicOrderA ==
            IF \E i \in DOMAIN topics : ~HasMin(topics[i]) THEN <<Issue("topics.order.unknown", -1)>>
            ELSE If(~IsSorted(topic_min_idxs), Issue("topics.order", -1))
        \* lines 745-752: topic_pos is keyed by the ids of the topics, whatever they are
        topic_order == SelectSeq(topics, IsDict)
        UnhashableId == \E i \in DOMAIN topic_order : ~Hashable(Get(topic_order[i], "id"))
        UnhashableTopicId == \E i \in DOMAIN cards : IsDict(cards[i]) /\ ~Hashable(Get(cards[i], "topicId"))
        topic_pos(tid) ==
            LET hits == {i \in DOMAIN topic_order : PyEq(Get(topic_order[i], "id"), tid)}
            IN  IF hits = {} THEN 0 - 1 ELSE (CHOOSE i \in hits : \A j \in hits : j <= i) - 1
        dicts == SelectSeq(cards, IsDict)
        card_topic_positions == [i \in DOMAIN dicts |-> topic_pos(Get(dicts[i], "topicId"))]
        VCardOrderA ==
            IF \E i \in DOMAIN card_topic_positions : card_topic_positions[i] < 0
            THEN <<Issue("cards.order.unknown", -1)>>
            ELSE If(~IsSorted(card_topic_positions), Issue("cards.order", -1))
        \* lines 754-766
        cards_by_topic(tid) ==
            Cardinality({i \in DOMAIN cards :
                            /\ IsDict(cards[i]) /\ IsStr(Get(cards[i], "topicId"))
                            /\ cards[i].v.topicId.v = tid})
        expected(t) ==
            IF Truthy(Get(t, "memberIds")) /\ IsList(Get(t, "memberIds"))
                 /\ Len(t.v.memberIds.v) > VSplitAbove
            THEN 2 ELSE 1
        VSplitA ==
            IssuesOver(topics, LAMBDA i :
                If(IsDict(topics[i]) /\ IsStr(Get(topics[i], "id"))
                        /\ cards_by_topic(topics[i].v.id.v) # expected(topics[i]),
                   Issue("topics.cards", i - 1)))
    IN  IF ~IsDict(deck) THEN Returns(<<Issue("root", -1)>>)
        ELSE IF \E k \in DOMAIN TopKeys : ~Has(deck, TopKeys[k])
        THEN Returns(IssuesOver(TopKeys, LAMBDA k : If(~Has(deck, TopKeys[k]), Issue("missing", k - 1))))
        ELSE IF \E k \in DOMAIN Shapes : ~Shapes[k]
        THEN Returns(VMetaA \o <<Issue("shape", (CHOOSE k \in DOMAIN Shapes :
                                        ~Shapes[k] /\ \A j \in 1..(k - 1) : Shapes[j]) - 1)>>)
        ELSE IF UnhashableTopicId \/ UnhashableId THEN Raises("TypeError")
        ELSE Returns(VMetaA
                     \o IssuesOver(paragraphs, VParagraphA)
                     \o IssuesOver(keypoints, VKeypointA)
                     \o VCoverage
                     \o If(Len(topics) < 1, Issue("topics.none", -1))
                     \o IssuesOver(topics, VTopicA)
                     \o IssuesOver(cards, VCardA)
                     \o VStatsA \o VTopicOrderA \o VCardOrderA \o VSplitA)

\* A document on disk is a deck that analyze_text wrote, edited in one place.
SetKey(d, k, value) == JDict([x \in DOMAIN d.v \cup {k} |-> IF x = k THEN value ELSE d.v[x]])
DropKey(d, k) == JDict([x \in DOMAIN d.v \ {k} |-> d.v[x]])
SetItem(d, i, value) == JList([d.v EXCEPT ![i] = value])
\* the values an edit puts in place of a value
Alien ==
    <<JNull, JBool(TRUE), JInt(0 - 1), JInt(0), JInt(1), JInt(2), JInt(3),
      JStr(<< >>), JStr(<<"p", "1">>), JStr(<<"p", "2">>),
      JList(<< >>), JList(<<JStr(<<"p", "1">>)>>), EmptyDict>>
ListFields == {"paragraphs", "keypoints", "topics", "cards"}
DictFields == {"meta", "stats"}
\* an edit: the root ("root"), a top-level field ("drop", "field"), a key of meta
\* or stats ("key"), the i-th item of an array ("item") or one of its keys, present
\* or optional ("itemkey"), replaced by the a-th alien value; the i-th keypoint
\* written twice, stats.totalKeypoints following ("repeat")
Edit(op, f, i, k, a) == [op |-> op, f |-> f, i |-> i, k |-> k, a |-> a]
EditsOf(d) ==
    {Edit("keep", "", 0, "", 0)}
    \cup {Edit("root", "", 0, "", a) : a \in DOMAIN Alien}
    \cup {Edit("drop", f, 0, "", 0) : f \in DOMAIN d.v}
    \cup {Edit("field", f, 0, "", a) : f \in DOMAIN d.v, a \in DOMAIN Alien}
    \cup UNION {{Edit("key", f, 0, k, a) : k \in DOMAIN d.v[f].v, a \in DOMAIN Alien} :
                   f \in DictFields}
    \cup UNION {{Edit("item", f, i, "", a) : i \in DOMAIN d.v[f].v, a \in DOMAIN Alien} :
                   f \in ListFields}
    \cup UNION {UNION {{Edit("itemkey", f, i, k, a) :
                          k \in DOMAIN d.v[f].v[i].v \cup {"id", "headingLevel"},
                          a \in DOMAIN Alien} :
                      i \in DOMAIN d.v[f].v} :
                   f \in ListFields}
    \cup {Edit("repeat", "keypoints", i, "", 0) : i \in DOMAIN d.v.keypoints.v}
Edited(d, e) ==
    CASE e.op = "keep" -> d
      [] e.op = "root" -> Alien[e.a]
      [] e.op = "drop" -> DropKey(d, e.f)
      [] e.op = "field" -> SetKey(d, e.f, Alien[e.a])
      [] e.op = "key" -> SetKey(d, e.f, SetKey(d.v[e.f], e.k, Alien[e.a]))
      [] e.op = "item" -> SetKey(d, e.f, SetItem(d.v[e.f], e.i, Alien[e.a]))
      [] e.op = "itemkey" ->
            SetKey(d, e.f, SetItem(d.v[e.f], e.i, SetKey(d.v[e.f].v[e.i], e.k, Alien[e.a])))
      [] OTHER ->
            SetKey(SetKey(d, "keypoints", JList(Append(d.v.keypoints.v, d.v.keypoints.v[e.i]))),
                   "stats", SetKey(d.v.stats, "totalKeypoints", JInt(Len(d.v.keypoints.v) + 1)))

---------------------------------------------------------------------------
(* learn2cards/pipeline.py: analyze_text                                   *)

\* AnalyzeOptions() with its defaults, the embedding dimension at the
\* smallest value _validate_options accepts
AnalyzeOptions ==
    [language |-> "auto", max_topics |-> 5, topic_threshold |-> (3 * Scale) \div 4,
     max_bullets_per_card |-> 5, target_bullets_per_card |-> 4,
     embedding_dim |-> MinEmbeddingDim, seed |-> 0, source |-> "text",
     verbose |-> FALSE, max_chars |-> 200000]

\* _validate_options: "ok" or the PipelineError it raises
_validate_options(opt) ==
    IF opt.max_topics < 1 THEN "max_topics"
    ELSE IF ~(0 <= opt.topic_threshold /\ opt.topic_threshold <= Scale) THEN "topic_threshold"
    ELSE IF opt.embedding_dim < MinEmbeddingDim THEN "embedding_dim"
    ELSE IF ~(1 <= opt.max_bullets_per_card /\ opt.max_bullets_per_card <= 5)
         THEN "max_bullets_per_card"
    ELSE IF ~(1 <= opt.target_bullets_per_card /\ opt.target_bullets_per_card <= 5)
         THEN "target_bullets_per_card"
    ELSE IF opt.target_bullets_per_card > opt.max_bullets_per_card THEN "target_gt_max"
    ELSE "ok"

\* normalized = text.replace(...).replace(...); normalized = normalized.strip("\n")
L2CNormalize(text) == StripNewlines(NormalizeNewlines(text))

\* paragraph_objs: ids p1.. and idx 0..
L2CParagraphObjs(paras) ==
    [i \in DOMAIN paras |->
        [id |-> MakeId("p", i), idx |-> i - 1, text |-> paras[i].text,
         headingLevel |-> paras[i].headingLevel, sectionPath |-> paras[i].sectionPath]]

\* analyze_text up to the call of _cluster_threshold: the error raised, or
\* the paragraphs, language, keypoints and vectors
L2CPrepare(text, opt) ==
    LET none == [err |-> "ok", paragraphs |-> << >>, lang |-> "en", keypoints |-> << >>,
                 vectors |-> << >>]
        \* vectors = _embed_paragraphs(...)
        Embedded(objs, lang, kps) ==
            [err |-> "ok", paragraphs |-> objs, lang |-> lang, keypoints |-> kps,
             vectors |-> _embed_paragraphs(objs, kps, opt.embedding_dim, lang)]
        \* keypoints = _extract_keypoints(paragraph_objs, lang)
        Resolved(objs, lang) == Embedded(objs, lang, _extract_keypoints(objs, lang))
        \* paragraphs = _split_paragraphs(normalized); lang = _resolve_language(...)
        Split(normalized, paras) ==
            IF paras = << >> THEN [none EXCEPT !.err = "no_paragraphs"]
            ELSE Resolved(L2CParagraphObjs(paras),
                          _resolve_language(opt.language, normalized))
        Normalized(normalized) ==
            IF Strip(normalized) = << >> THEN [none EXCEPT !.err = "empty"]
            ELSE IF Len(normalized) > opt.max_chars THEN [none EXCEPT !.err = "too_long"]
            ELSE Split(normalized, _split_paragraphs(normalized))
        Checked(problem) ==
            IF problem # "ok" THEN [none EXCEPT !.err = problem]
            ELSE Normalized(L2CNormalize(text))
    IN  Checked(_validate_options(opt))

\* L2CAssemble as it would be if the card ids were drawn from the clock
L2CAssembleClocked(named, paragraphs, keypoints, lang, opt, now) ==
    LET Deck(topics2, cards2) ==
            [meta |-> [source |-> opt.source, generatedAt |-> now,
                       schemaVersion |-> "1.0.0"],
             paragraphs |-> paragraphs,
             keypoints |-> keypoints,
             topics |-> topics2,
             cards |-> cards2,
             stats |-> [totalParagraphs |-> Len(paragraphs),
                        totalKeypoints |-> Len(keypoints),
                        totalTopics |-> Len(topics2), totalCards |-> Len(cards2)],
             debug |-> IF opt.verbose
                       THEN <<[resolvedLanguage |-> lang, options |-> opt]>>
                       ELSE << >>]
        \* cards = _generate_cards(...) on the named topics, before they are sorted
        Cards0 == _generate_cards(named, paragraphs, keypoints, lang,
                                  opt.max_bullets_per_card, opt.target_bullets_per_card)
        CardIds(cards) == [i \in DOMAIN cards |-> [cards[i] EXCEPT !.id = MakeId("c", now + i)]]
        Renumbered(sorted, topics2) ==
            Deck(topics2,
                 CardIds(_sort_cards_deterministic(
                             _remap_cards_topic_ids(Cards0, TopicIdMap(sorted)), topics2)))
        Sorted(sorted) == Renumbered(sorted, RenumberTopics(sorted))
    IN  Sorted(_sort_topics_deterministic(named, paragraphs))

\* analyze_text after _cluster_threshold returned: cards, order, ids, stats, deck
L2CAssemble(named, paragraphs, keypoints, lang, opt, now) ==
    LET Deck(topics2, cards2) ==
            [meta |-> [source |-> opt.source, generatedAt |-> now,
                       schemaVersion |-> "1.0.0"],
             paragraphs |-> paragraphs,
             keypoints |-> keypoints,
             topics |-> topics2,
             cards |-> cards2,
             stats |-> [totalParagraphs |-> Len(paragraphs),
                        totalKeypoints |-> Len(keypoints),
                        totalTopics |-> Len(topics2), totalCards |-> Len(cards2)],
             debug |-> IF opt.verbose
                       THEN <<[resolvedLanguage |-> lang, options |-> opt]>>
                       ELSE << >>]
        \* cards = _generate_cards(...) on the named topics, before they are sorted
        Cards0 == _generate_cards(named, paragraphs, keypoints, lang,
                                  opt.max_bullets_per_card, opt.target_bullets_per_card)
        CardIds(cards) == _reassign_card_ids(cards)
        Renumbered(sorted, topics2) ==
            Deck(topics2,
                 CardIds(_sort_cards_deterministic(
                             _remap_cards_topic_ids(Cards0, TopicIdMap(sorted)), topics2)))
        Sorted(sorted) == Renumbered(sorted, RenumberTopics(sorted))
    IN  Sorted(_sort_topics_deterministic(named, paragraphs))

---------------------------------------------------------------------------
(* agent_a/text_utils.py                                                   *)

_EN_STOPWORDS == {
    <<"t", "h", "e">>, <<"a">>, <<"a", "n">>, <<"a", "n", "d">>,
    <<"o", "r">>, <<"t", "o">>, <<"o", "f">>, <<"i", "n">>, <<"o", "n">>,
    <<"f", "o", "r">>, <<"w", "i", "t", "h">>, <<"a", "s">>, <<"a", "t">>,
    <<"b", "y">>, <<"f", "r", "o", "m">>, <<"i", "s">>, <<"a", "r", "e">>,
    <<"w", "a", "s">>, <<"w", "e", "r", "e">>, <<"b", "e">>,
    <<"b", "e", "e", "n">>, <<"b", "e", "i", "n", "g">>, <<"i", "t">>,
    <<"t", "h", "i", "s">>, <<"t", "h", "a", "t">>,
    <<"t", "h", "e", "s", "e">>, <<"t", "h", "o", "s", "e">>, <<"w", "e">>,
    <<"y", "o", "u">>, <<"t", "h", "e", "y">>, <<"i">>, <<"h", "e">>,
    <<"s", "h", "e">>, <<"t", "h", "e", "m">>, <<"u", "s">>,
    <<"o", "u", "r">>, <<"y", "o", "u", "r">>, <<"t", "h", "e", "i", "r">>,
    <<"n", "o", "t">>, <<"c", "a", "n">>, <<"c", "o", "u", "l", "d">>,
    <<"s", "h", "o", "u", "l", "d">>, <<"w", "o", "u", "l", "d">>,
    <<"m", "a", "y">>, <<"m", "i", "g", "h", "t">>, <<"w", "i", "l", "l">>,
    <<"j", "u", "s", "t">>, <<"a", "l", "s", "o">>, <<"t", "h", "a", "n">>,
    <<"t", "h", "e", "n">>, <<"t", "h", "e", "r", "e">>,
    <<"h", "e", "r", "e">>, <<"a", "b", "o", "u", "t">>,
    <<"i", "n", "t", "o">>, <<"o", "v", "e", "r">>,
    <<"u", "n", "d", "e", "r">> }

normalize_whitespace(s) == Strip(CollapseSpaces(s))

\* needle in haystack, for strings
Contains(haystack, needle) ==
    \E i \in 0..(Len(haystack) - Len(needle)) :
        Slice(haystack, i, i + Len(needle)) = needle

CountCJK(text) == Cardinality({i \in DOMAIN text : IsCJK(text[i])})
Max2(a, b) == IF a >= b THEN a ELSE b
Min2(a, b) == IF a <= b THEN a ELSE b

is_cjk_heavy(language, text) ==
    \/ Contains(Lower(language), <<"z", "h">>)
    \/ CountCJK(text) >= Max2(10, Len(text) \div 20)

\* re.split(r"[。！？!?]+", t): the pieces between runs of terminators
RECURSIVE SplitZhAcc(_, _, _)
SplitZhAcc(s, cur, acc) ==
    IF s = << >> THEN Append(acc, cur)
    ELSE IF Head(s) \in ZhTerminators
         THEN IF Len(s) >= 2 /\ s[2] \in ZhTerminators
              THEN SplitZhAcc(Tail(s), cur, acc)
              ELSE SplitZhAcc(Tail(s), << >>, Append(acc, cur))
         ELSE SplitZhAcc(Tail(s), Append(cur, Head(s)), acc)
\* re.split(r"(?<=[.!?])\s+", t): cut at each run of whitespace that follows
\* a terminator; the terminator stays with the piece before
RECURSIVE SplitEnAcc(_, _, _)
SplitEnAcc(s, cur, acc) ==
    IF s = << >> THEN Append(acc, cur)
    ELSE IF IsSpace(Head(s)) /\ cur # << >> /\ cur[Len(cur)] \in EnTerminators
         THEN SplitEnAcc(Drop(s, LeadingSpaces(s)), << >>, Append(acc, cur))
         ELSE SplitEnAcc(Tail(s), Append(cur, Head(s)), acc)

split_sentences(text, language) ==
    LET t == normalize_whitespace(text)
        parts == IF is_cjk_heavy(language, t) THEN SplitZhAcc(t, << >>, << >>)
                 ELSE SplitEnAcc(t, << >>, << >>)
    IN  IF t = << >> THEN << >>
        ELSE NonEmpty([i \in DOMAIN parts |-> Strip(parts[i])])

RECURSIVE CJKRunLength(_)
CJKRunLength(s) == IF s = << >> \/ ~IsCJK(Head(s)) THEN 0 ELSE 1 + CJKRunLength(Tail(s))
\* _RE_CJK_WORD.findall: chunks of 2 to 4 CJK characters, greedy, left to right
RECURSIVE FindCJKWords(_)
FindCJKWords(s) ==
    IF s = << >> THEN << >>
    ELSE LET n == Min2(CJKRunLength(s), 4)
         IN  IF n >= 2 THEN <<Prefix(s, n)>> \o FindCJKWords(Drop(s, n))
             ELSE FindCJKWords(Tail(s))

extract_cjk_keywords(text, max_keywords) ==
    LET candidates == FindCJKWords(text)
    IN  IF candidates = << >> THEN << >> ELSE Prefix(Ranked(candidates), max_keywords)

\* [A-Za-z0-9_-]
IsWordChar(c) == IsLetter(c) \/ IsDigit(c) \/ c \in {"_", "-"}
RECURSIVE WordRunLength(_)
WordRunLength(s) ==
    IF s = << >> \/ ~IsWordChar(Head(s)) THEN 0 ELSE 1 + WordRunLength(Tail(s))
\* _RE_LATIN_WORD.findall: a letter and then one or more word characters
RECURSIVE FindLatinWords(_)
FindLatinWords(s) ==
    IF s = << >> THEN << >>
    ELSE LET n == 1 + WordRunLength(Tail(s))
         IN  IF IsLetter(Head(s)) /\ n >= 2
             THEN <<Prefix(s, n)>> \o FindLatinWords(Drop(s, n))
             ELSE FindLatinWords(Tail(s))

extract_latin_keywords(text, max_keywords) ==
    LET found == FindLatinWords(text)
        candidates == [i \in DOMAIN found |-> Lower(found[i])]
        kept == SelectIdx(candidates, {i \in DOMAIN candidates :
                    candidates[i] \notin _EN_STOPWORDS /\ Len(candidates[i]) > 2})
    IN  Prefix(Ranked(kept), max_keywords)

unique_preserve_order(items) == Unique(items)

---------------------------------------------------------------------------
(* agent_a/segmenter.py: segment_text                                      *)

\* _RE_HEADING = ^(#{1,6})\s+(.*\S)\s*$ : the title holds a non-space character
AHeadingMatches(line) ==
    LET k == LeadingHashes(line)
    IN  /\ k >= 1 /\ k <= 6 /\ Len(line) > k /\ IsSpace(line[k + 1])
        /\ Strip(Drop(line, k)) # << >>
AHeadingTitle(line) == Strip(Drop(line, LeadingHashes(line)))

\* _RE_UL_ITEM = ^\s*[-*+]\s+(.*\S)\s*$ and _RE_OL_ITEM = ^\s*\d+\.\s+(.*\S)\s*$ :
\* what follows the marker, or <<"no">>
AAfterMarker(line) ==
    LET rest == LStrip(line)
        d == LeadingDigits(rest)
    IN  IF rest # << >> /\ rest[1] \in {"-", "*", "+"} THEN <<"ok", Drop(rest, 1)>>
        ELSE IF d >= 1 /\ Len(rest) > d /\ rest[d + 1] = "." THEN <<"ok", Drop(rest, d + 1)>>
        ELSE <<"no", << >> >>
AItemMatches(line) ==
    LET a == AAfterMarker(line)
    IN  a[1] = "ok" /\ a[2] # << >> /\ IsSpace(a[2][1]) /\ Strip(a[2]) # << >>
AItemText(line) == Strip(AAfterMarker(line)[2])

\* _RE_INDENT_CONT = ^\s{2,}(\S.*)$
AIndentContMatches(line) == LeadingSpaces(line) >= 2 /\ LStrip(line) # << >>

\* current_section_path(): None (here << >>) when the stack is empty
current_section_path(st) == [i \in DOMAIN st.section_stack |-> st.section_stack[i][2]]

\* flush_buf()
AFlushBuf(st) ==
    LET joined == normalize_whitespace(Join(st.buf, <<"\n">>))
        idx == Len(st.paragraphs)
    IN  IF st.buf = << >> THEN st
        ELSE IF joined = << >> THEN [st EXCEPT !.buf = << >>]
        ELSE [st EXCEPT !.buf = << >>,
                        !.paragraphs = Append(st.paragraphs,
                            [id |-> MakeId("p", idx), text |-> joined,
                             headingLevel |-> st.current_heading_level,
                             sectionPath |-> current_section_path(st), idx |-> idx])]

\* while section_stack and section_stack[-1][0] >= level: section_stack.pop()
RECURSIVE PopToParent(_, _)
PopToParent(stack, level) ==
    IF stack # << >> /\ stack[Len(stack)][1] >= level
    THEN PopToParent(SubSeq(stack, 1, Len(stack) - 1), level)
    ELSE stack

\* one iteration of "for line in lines"
ASegmentLine(st, line) ==
    IF AHeadingMatches(line)
    THEN LET f == AFlushBuf(st)
             level == LeadingHashes(line)
         IN  [f EXCEPT !.section_stack =
                           Append(PopToParent(f.section_stack, level),
                                  <<level, Strip(AHeadingTitle(line))>>),
                       !.current_heading_level = level]
    ELSE IF Strip(line) = << >> THEN AFlushBuf(st)
    ELSE IF AItemMatches(line)
    THEN [AFlushBuf(st) EXCEPT !.buf = <<Strip(AItemText(line))>>]
    ELSE IF AIndentContMatches(line) /\ st.buf # << >>
    THEN [st EXCEPT !.buf = Append(st.buf, Strip(LStrip(line)))]
    ELSE [st EXCEPT !.buf = Append(st.buf, Strip(line))]

RECURSIVE ASegmentLoop(_, _)
ASegmentLoop(st, lines) ==
    IF lines = << >> THEN st
    ELSE ASegmentLoop(ASegmentLine(st, Head(lines)), Tail(lines))

segment_text(text) ==
    LET st0 == [paragraphs |-> << >>, buf |-> << >>, section_stack |-> << >>,
                current_heading_level |-> 0]
    IN  AFlushBuf(ASegmentLoop(st0, SplitLines(NormalizeNewlines(text)))).paragraphs

---------------------------------------------------------------------------
(* agent_a/keypoints.py: extract_keypoints                                 *)

AKeypoint(p, options) ==
    LET \* if len(sentence) > 280: sentence = sentence[:277].rstrip() + "..."
        Shortened(sentence) ==
            IF Len(sentence) > ASentenceCap
            THEN RStrip(Prefix(sentence, ASentenceCap - 3)) \o <<".", ".", ".">>
            ELSE sentence
        \* sentence = (sentences[0] if sentences else p.text.strip()).strip()
        First(sentences) ==
            Shortened(Strip(IF sentences # << >> THEN sentences[1] ELSE Strip(p.text)))
        keywords == IF is_cjk_heavy(options.language, p.text)
                    THEN extract_cjk_keywords(p.text, 5)
                    ELSE extract_latin_keywords(p.text, 5)
    IN  [paragraphId |-> p.id,
         sentence |-> First(split_sentences(p.text, options.language)),
         keywords |-> Prefix(keywords, 5)]

extract_keypoints(paragraphs, options) ==
    [i \in DOMAIN paragraphs |-> AKeypoint(paragraphs[i], options)]

---------------------------------------------------------------------------
(* agent_a/embedding.py                                                    *)

\* hashlib.sha256(token).digest(): bytes 0..7 as four 16-bit numbers, high
\* first, then bit 0 of byte 8; for the tokens the inputs of the model can produce
Sha256Prefix(tok) ==
    CASE tok = <<"a", "b", "c">> -> <<47736, 5823, 36609, 53226, 1>>
      [] tok = <<"b", "c", "d">> -> <<42672, 63757, 10946, 47313, 0>>
      [] tok = <<"a", "n", "d">> -> <<25089, 4379, 33696, 52059, 1>>
      [] tok = <<"U4E2D", "U6587">> -> <<29298, 28040, 6390, 37638, 0>>
      [] tok = <<"U4E2D">> -> <<42343, 48554, 4406, 32550, 1>>
      [] tok = <<"U6587">> -> <<13943, 61303, 45399, 19734, 1>>

\* (idx, sign) = (int.from_bytes(h[:8], "big") % dim, -1.0 if h[8] & 1 else 1.0)
_hash_to_index_and_sign(tok, dim) ==
    LET h == Sha256Prefix(tok)
        b == 65536 % dim
        r1 == h[1] % dim
        r2 == (r1 * b + h[2]) % dim
        r3 == (r2 * b + h[3]) % dim
        r4 == (r3 * b + h[4]) % dim
    IN  <<r4, IF h[5] = 1 THEN -Scale ELSE Scale>>

_tokens_for_embedding(text, language) ==
    LET toks == extract_cjk_keywords(text, 50)
    IN  IF is_cjk_heavy(language, text)
        THEN IF toks # << >> THEN toks
             ELSE LET cs == Prefix(SelectIdx(text, {i \in DOMAIN text : IsCJK(text[i])}), 50)
                  IN  [i \in DOMAIN cs |-> <<cs[i]>>]
        ELSE extract_latin_keywords(text, 80)

\* a / b on floats that may be negative: the fixed-point quotient, rounded
\* toward zero so that x and -x keep the same magnitude
FDiv(a, b) == IF a >= 0 THEN a \div b ELSE -((-a) \div b)

\* float(np.linalg.norm(v))
Norm(v) == ISqrt(SumSeq([i \in DOMAIN v |-> v[i] * v[i]]))

\* HashingEmbedder.embed_texts, for one text
AEmbedOne(t, dim, language) ==
    LET Hashed(toks) == [i \in DOMAIN toks |-> _hash_to_index_and_sign(toks[i], dim)]
        Summed(hs) ==
            [i \in 1..dim |->
                SumSeq([k \in DOMAIN hs |-> IF hs[k][1] = i - 1 THEN hs[k][2] ELSE 0])]
        Scaled(v, norm) ==
            IF norm > 0 THEN [i \in 1..dim |-> FDiv(v[i] * Scale, norm)] ELSE v
        Normalized(v) == Scaled(v, Norm(v))
    IN  Normalized(Summed(Hashed(_tokens_for_embedding(t, language))))

\* not math.isclose(norm, 1.0, rel_tol=1e-3, abs_tol=1e-3)
NotCloseToOne(norm) ==
    LET diff == IF norm >= Scale THEN norm - Scale ELSE Scale - norm
        big == Max2(norm, Scale)
    IN  diff * 1000 > Max2(big, Scale)

\* embed_paragraphs: the vectors, renormalized when the norm drifted
embed_paragraphs(paragraphs, options) ==
    LET Scaled(v, norm) ==
            IF norm > 0 /\ NotCloseToOne(norm)
            THEN [k \in DOMAIN v |-> FDiv(v[k] * Scale, norm)]
            ELSE v
        Renormalized(v) == Scaled(v, Norm(v))
    IN  [i \in DOMAIN paragraphs |->
            Renormalized(AEmbedOne(paragraphs[i].text, options.embeddingDimension,
                                   options.language))]

---------------------------------------------------------------------------
(* agent_a/cluster.py: cluster_topics                                      *)

\* float(a @ b)
_cosine(a, b) == FDiv(SumSeq([i \in DOMAIN a |-> a[i] * b[i]]), Scale)

\* new = (centroid * n_members + v) / (n_members + 1); new / norm
_update_centroid(centroid, v, n_members) ==
    LET new == [k \in DOMAIN centroid |->
                   FDiv(centroid[k] * n_members + v[k], n_members + 1)]
        norm == Norm(new)
    IN  IF norm > 0 THEN [k \in DOMAIN new |-> FDiv(new[k] * Scale, norm)] ELSE new

\* the scan "for j in range(1, len(states))": best = <<best_j, best_sim>>, and a
\* later topic wins only when its similarity is larger by more than TieEpsilon
RECURSIVE BestScan(_, _, _, _)
BestScan(sims, j, best, eps) ==
    IF j > Len(sims) THEN best
    ELSE BestScan(sims, j + 1, IF sims[j] > best[2] + eps THEN <<j, sims[j]>> ELSE best,
                  eps)
ABestScan(sims, j, best) == BestScan(sims, j, best, TieEpsilon)

\* states.append(_TopicState(id=f"t{len(states)}", member_ids=[pid], centroid=v.copy()))
AOpen(cl, pid, v) ==
    [topics |-> Append(cl.topics,
                       [id |-> MakeId("t", Len(cl.topics)), title |-> << >>,
                        memberIds |-> <<pid>>, summaryBullets |-> << >>]),
     centroids |-> Append(cl.centroids, v)]

\* AAssign as it would be without st.member_ids.append(pid)
AAssignNoAppend(cl, best_j, pid, v) ==
    [topics |-> cl.topics,
     centroids |-> [cl.centroids EXCEPT ![best_j] =
                       _update_centroid(@, v, Len(cl.topics[best_j].memberIds))]]

\* st.centroid = _update_centroid(...); st.member_ids.append(pid)
AAssign(cl, best_j, pid, v) ==
    [topics |-> [cl.topics EXCEPT ![best_j].memberIds = Append(@, pid)],
     centroids |-> [cl.centroids EXCEPT ![best_j] =
                       _update_centroid(@, v, Len(cl.topics[best_j].memberIds))]]

\* AClusterStep as it would be without "or len(states) >= options.maxTopics"
AClusterStepNoCap(cl, paragraphs, vectors, i, options) ==
    LET pid == paragraphs[i].id
        v == vectors[i]
        sims == [j \in DOMAIN cl.centroids |-> _cosine(cl.centroids[j], v)]
        best == ABestScan(sims, 2, <<1, sims[1]>>)
    IN  IF best[2] >= options.topicThreshold
        THEN AAssign(cl, best[1], pid, v)
        ELSE AOpen(cl, pid, v)

\* one iteration of "for i in range(1, len(paragraphs))" of cluster_topics
AClusterStep(cl, paragraphs, vectors, i, options) ==
    LET pid == paragraphs[i].id
        v == vectors[i]
        sims == [j \in DOMAIN cl.centroids |-> _cosine(cl.centroids[j], v)]
        best == ABestScan(sims, 2, <<1, sims[1]>>)
    IN  IF best[2] >= options.topicThreshold \/ Len(cl.topics) >= options.maxTopics
        THEN AAssign(cl, best[1], pid, v)
        ELSE AOpen(cl, pid, v)

\* pid_to_idx[pid]
APidToIdx(paragraphs, pid) ==
    paragraphs[CHOOSE i \in DOMAIN paragraphs :
                   /\ paragraphs[i].id = pid
                   /\ \A j \in DOMAIN paragraphs : paragraphs[j].id = pid => j <= i].idx

\* kp_by_pid.get(pid): position of the keypoint (the last one wins), 0 for None
AKpIndex(keypoints, pid) ==
    LET hits == {i \in DOMAIN keypoints : keypoints[i].paragraphId = pid}
    IN  IF hits = {} THEN 0 ELSE CHOOSE i \in hits : \A j \in hits : j <= i

\* [kp_by_pid[pid].sentence for pid in member_ids if pid in kp_by_pid and ....strip()]
AMemberSentences(member_ids, keypoints) ==
    LET keep == {k \in DOMAIN member_ids :
                    /\ AKpIndex(keypoints, member_ids[k]) # 0
                    /\ Strip(keypoints[AKpIndex(keypoints, member_ids[k])].sentence) # << >>}
        kept == SelectIdx(member_ids, keep)
    IN  [k \in DOMAIN kept |-> keypoints[AKpIndex(keypoints, kept[k])].sentence]

\* the body of "for new_idx, st in enumerate(states_sorted)"
ATopic(new_idx, st, paragraphs, keypoints, options) ==
    LET KpOf(pid) == AKpIndex(keypoints, pid)
        Known(member_ids) ==
            SelectIdx(member_ids, {k \in DOMAIN member_ids : KpOf(member_ids[k]) # 0})
        Keywords(known) == Concat([k \in DOMAIN known |-> keypoints[KpOf(known[k])].keywords])
        FirstSentence(pid, first_kp) ==
            Strip(IF first_kp # 0 THEN keypoints[first_kp].sentence ELSE pid)
        Title(kws, t0) ==
            IF kws # << >> THEN Ranked(kws)[1]
            ELSE IF Len(t0) > ATitleCap THEN RStrip(Prefix(t0, ATitleCap)) ELSE t0
        Built(member_ids) ==
            [id |-> MakeId("t", new_idx),
             title |-> Title(Keywords(Known(member_ids)),
                             FirstSentence(member_ids[1], KpOf(member_ids[1]))),
             memberIds |-> member_ids,
             summaryBullets |->
                 Prefix(unique_preserve_order(AMemberSentences(member_ids, keypoints)),
                        options.maxSummaryBulletsPerTopic)]
    IN  Built(StableSort(st.memberIds,
                         [k \in DOMAIN st.memberIds |->
                             <<APidToIdx(paragraphs, st.memberIds[k]), << >> >>]))

\* cluster_topics after its loop: states sorted by smallest member idx, then
\* renumbered t0, t1, ... and given title and summary
AFinishTopics(states, paragraphs, keypoints, options) ==
    LET states_sorted ==
            StableSort(states,
                [i \in DOMAIN states |->
                    <<MinOf({APidToIdx(paragraphs, states[i].memberIds[k]) :
                                k \in DOMAIN states[i].memberIds}, 0), << >> >>])
    IN  [i \in DOMAIN states_sorted |->
            ATopic(i - 1, states_sorted[i], paragraphs, keypoints, options)]

---------------------------------------------------------------------------
(* agent_a/cards.py: build_cards                                           *)

AFallbackBullet ==
    <<"UFF08", "U5167", "U5BB9", "U4E0D", "U8DB3", "UFF0C", "U8ACB", "U88DC", "U5145",
      "U66F4", "U591A", "U6BB5", "U843D", "U6216", "U6587", "U5B57", "UFF09">>

\* f"（第{pi}部分）"
APartSuffix(pi) == <<"UFF08", "U7B2C">> \o Decimal(pi) \o <<"U90E8", "U5206", "UFF09">>

\* bullets_for as it would be without unique_preserve_order
BulletsForNoUnique(member_ids, keypoints, options) ==
    LET bullets == AMemberSentences(member_ids, keypoints)
        target == Max2(1, Min2(options.targetBulletsPerCard, options.maxBulletsPerCard))
        cut == Prefix(bullets,
                      Max2(1, Min2(Min2(Len(bullets), options.maxBulletsPerCard), target)))
    IN  IF cut # << >> THEN cut ELSE <<AFallbackBullet>>

bullets_for(member_ids, keypoints, options) ==
    LET bullets == unique_preserve_order(AMemberSentences(member_ids, keypoints))
        target == Max2(1, Min2(options.targetBulletsPerCard, options.maxBulletsPerCard))
        cut == Prefix(bullets,
                      Max2(1, Min2(Min2(Len(bullets), options.maxBulletsPerCard), target)))
    IN  IF cut # << >> THEN cut ELSE <<AFallbackBullet>>

\* the cards of one topic, not numbered yet
ATopicCards(t, keypoints, options) ==
    LET member_ids == t.memberIds
        mid == Len(member_ids) \div 2
        parts == <<Prefix(member_ids, mid), Drop(member_ids, mid)>>
    IN  IF Len(member_ids) > ASplitAbove
        THEN [pi \in 1..2 |->
                 [topicId |-> t.id, title |-> t.title \o APartSuffix(pi),
                  bullets |-> bullets_for(parts[pi], keypoints, options)]]
        ELSE << [topicId |-> t.id, title |-> t.title,
                 bullets |-> bullets_for(member_ids, keypoints, options)] >>

build_cards(topics, keypoints, options) ==
    NumberCards(Concat([i \in DOMAIN topics |-> ATopicCards(topics[i], keypoints, options)]))

---------------------------------------------------------------------------
(* agent_a/models.py and agent_a/pipeline.py: run_agent_a                  *)

\* PipelineOptions() with its defaults, the embedding dimension at the
\* smallest value the schema accepts
PipelineOptions ==
    [language |-> <<"z", "h", "-", "T", "W">>, topicThreshold |-> (3 * Scale) \div 4,
     maxTopics |-> 5, maxBulletsPerCard |-> 5, targetBulletsPerCard |-> 4,
     maxSummaryBulletsPerTopic |-> 5, embeddingDimension |-> AMinEmbeddingDim,
     maxChars |-> 200000]

\* the Field(...) constraints of the pydantic models
ParagraphOk(p) ==
    Len(p.text) >= 1 /\ (p.headingLevel = 0 \/ p.headingLevel \in 1..6) /\ p.idx >= 0
KeypointOk(k) == Len(k.sentence) >= 1 /\ Len(k.keywords) <= 5
TopicOk(t) == Len(t.title) >= 1 /\ Len(t.summaryBullets) <= 5
CardOk(c) == Len(c.title) >= 1 /\ Len(c.bullets) >= 1 /\ Len(c.bullets) <= 5

\* run_agent_a up to the loop of cluster_topics
APrepare(text, options) ==
    LET none == [err |-> "ok", paragraphs |-> << >>, keypoints |-> << >>, vectors |-> << >>]
        \* kps = extract_keypoints(...); vectors = embed_paragraphs(...)
        Embedded(paras, kps) ==
            IF \E i \in DOMAIN kps : ~KeypointOk(kps[i]) THEN [none EXCEPT !.err = "schema"]
            ELSE [err |-> "ok", paragraphs |-> paras, keypoints |-> kps,
                  vectors |-> embed_paragraphs(paras, options)]
        \* paragraphs = segment_text(text)
        Segmented(paras) ==
            IF \E i \in DOMAIN paras : ~ParagraphOk(paras[i])
            THEN [none EXCEPT !.err = "schema"]
            ELSE IF paras = << >> THEN [none EXCEPT !.err = "no_paragraphs"]
            ELSE Embedded(paras, extract_keypoints(paras, options))
    IN  IF Strip(text) = << >> THEN [none EXCEPT !.err = "empty"]
        ELSE IF Len(text) > options.maxChars THEN [none EXCEPT !.err = "too_long"]
        ELSE Segmented(segment_text(text))

\* the output of run_agent_a; AgentAOutput has no meta and no debug
AAssemble(states, paragraphs, keypoints, options) ==
    LET Output(tps, cards) ==
            [meta |-> [source |-> "", generatedAt |-> 0, schemaVersion |-> ""],
             paragraphs |-> paragraphs,
             keypoints |-> keypoints,
             topics |-> tps,
             cards |-> cards,
             stats |-> [totalParagraphs |-> Len(paragraphs),
                        totalKeypoints |-> Len(keypoints),
                        totalTopics |-> Len(tps), totalCards |-> Len(cards)],
             debug |-> << >>]
        WithCards(tps) == Output(tps, build_cards(tps, keypoints, options))
    IN  WithCards(AFinishTopics(states, paragraphs, keypoints, options))

\* Topic(...) and Card(...) accept what AAssemble built
AOutputOk(d) ==
    /\ \A i \in DOMAIN d.topics : TopicOk(d.topics[i])
    /\ \A i \in DOMAIN d.cards : CardOk(d.cards[i])

---------------------------------------------------------------------------
(* backend/cli.py: _Handler.do_POST, one POST /analyze of the socket       *)
(* server, around a call of analyze_text                                   *)

\* a lone surrogate, as json.loads gives it for "\ud800"
Surrogate == "UD800"
\* embedding_dim when the request names none
ServeEmbeddingDim == 256

\* int(x) for a value of the request: the integer, or "error"
PyInt(j) ==
    IF IsInteger(j) THEN IntOf(j)
    ELSE IF IsStr(j) /\ IsInt(j.v) THEN ParseInt(j.v)
    ELSE "error"
Converts(j) == IsInteger(j) \/ (IsStr(j) /\ IsInt(j.v))
\* opt_in.get(k, default)
GetOr(d, k, default) == IF Has(d, k) THEN d.v[k] ELSE default

\* the options the handler converts with int() or float()
NumberOptions == <<"max_topics", "topic_threshold", "max_bullets_per_card",
                   "target_bullets_per_card", "embedding_dim">>

\* lines 167-179: AnalyzeOptions from the options of the request; a
\* topic_threshold is a whole number in the requests of the model
ServeOptions(opt_in) ==
    LET language == GetOr(opt_in, "language", JStr(<<"a", "u", "t", "o">>))
        threshold == GetOr(opt_in, "topic_threshold", JNull)
    IN  [AnalyzeOptions EXCEPT
            !.language = IF IsStr(language) /\ language.v = <<"e", "n">> THEN "en"
                         ELSE IF IsStr(language) /\ language.v = <<"z", "h">> THEN "zh"
                         ELSE "auto",
            !.max_topics = PyInt(GetOr(opt_in, "max_topics", JInt(5))),
            !.topic_threshold = IF threshold.kind = "null" THEN (3 * Scale) \div 4
                                ELSE PyInt(threshold) * Scale,
            !.max_bullets_per_card = PyInt(GetOr(opt_in, "max_bullets_per_card", JInt(5))),
            !.target_bullets_per_card = PyInt(GetOr(opt_in, "target_bullets_per_card", JInt(4))),
            !.embedding_dim = PyInt(GetOr(opt_in, "embedding_dim", JInt(ServeEmbeddingDim))),
            !.verbose = Truthy(GetOr(opt_in, "verbose", JBool(FALSE)))]

\* what do_POST does before it calls analyze_text: it answers ("reply"), an
\* exception leaves it ("raise"), or it goes on to the call ("call")
Reply(status, error) == [outcome |-> "reply", status |-> status, error |-> error,
                         text |-> << >>, opt |-> AnalyzeOptions]
ServeParse(req) ==
    LET payload == IF req.length = "body" THEN req.payload ELSE EmptyDict
        opt_in == IF Truthy(Get(payload, "options")) THEN Get(payload, "options") ELSE EmptyDict
    IN  IF req.length = "invalid" THEN Reply(400, "invalid Content-Length")
        ELSE IF req.length = "body" /\ req.raw # "json" THEN Reply(400, "invalid json")
        ELSE IF ~IsDict(payload) THEN [Reply(0, "AttributeError") EXCEPT !.outcome = "raise"]
        ELSE IF ~IsStr(GetOr(payload, "text", JStr(<< >>))) THEN Reply(400, "text must be a string")
        ELSE IF ~IsDict(opt_in) THEN Reply(400, "options must be an object")
        ELSE IF \E k \in DOMAIN NumberOptions :
                    ~Converts(GetOr(opt_in, NumberOptions[k], JInt(0)))
        THEN Reply(400, "invalid options")
        ELSE [outcome |-> "call", status |-> 0, error |-> "",
              text |-> GetOr(payload, "text", JStr(<< >>)).v, opt |-> ServeOptions(opt_in)]

\* json.dumps(obj, ensure_ascii=False).encode("utf-8") raises for a deck
\* that holds a lone surrogate
Encodes(d) ==
    LET Clean(s) == \A i \in DOMAIN s : s[i] # Surrogate
        CleanAll(ss) == \A i \in DOMAIN ss : Clean(ss[i])
    IN  /\ \A i \in DOMAIN d.paragraphs :
              Clean(d.paragraphs[i].text) /\ CleanAll(d.paragraphs[i].sectionPath)
        /\ \A i \in DOMAIN d.keypoints :
              Clean(d.keypoints[i].sentence) /\ CleanAll(d.keypoints[i].keywords)
        /\ \A i \in DOMAIN d.topics :
              Clean(d.topics[i].title) /\ CleanAll(d.topics[i].summaryBullets)
        /\ \A i \in DOMAIN d.cards : Clean(d.cards[i].title) /\ CleanAll(d.cards[i].bullets)

---------------------------------------------------------------------------
(* backend/pipeline.py: build_deck, the pipeline behind POST /api/process  *)

MAX_INPUT_CHARS == 200000
EMBED_DIM == 64
\* summarize(ptxt, limit=60) and first[:20]
SummaryLimit == 60
TitleLimit == 20
\* a topic of more than 8 members gives two cards
BSplitAbove == 8

\* the set of backend/pipeline.py
PipelineStopwords ==
    { <<"t", "h", "e">>, <<"a">>, <<"a", "n">>, <<"a", "n", "d">>, <<"o", "r">>,
      <<"t", "o">>, <<"o", "f">>, <<"i", "n">>, <<"o", "n">>, <<"f", "o", "r">>,
      <<"w", "i", "t", "h">>, <<"i", "s">>, <<"a", "r", "e">>, <<"b", "e">>,
      <<"a", "s">>, <<"b", "y">>, <<"a", "t">>, <<"f", "r", "o", "m">> }
KeyPoint == <<"U91CD", "U9EDE">>
UnnamedTopic == <<"U672A", "U547D", "U540D", "U4E3B", "U984C">>
UpperPart == <<"UFF08", "U4E0A", "UFF09">>
LowerPart == <<"UFF08", "U4E0B", "UFF09">>
SentenceSeps == <<"U3002", "UFF01", "UFF1F", ".", "!", "?">>

\* the messages of ProcessingError
EmptyInput ==
    <<"U8F38", "U5165", "U70BA", "U7A7A", "UFF1A", "U8ACB", "U63D0", "U4F9B", "U975E",
      "U7A7A", "U7684", "U7D14", "U6587", "U5B57", "U5B57", "U4E32", "U3002">>
InputTooLong(n) ==
    <<"U8F38", "U5165", "U904E", "U9577", "UFF1A", "U76EE", "U524D", "U4E0A", "U9650",
      "U70BA", " ">> \o Decimal(MAX_INPUT_CHARS)
    \o <<" ", "U5B57", "U5143", "UFF0C", "U5BE6", "U969B", "U70BA", " ">> \o Decimal(n)
    \o <<"U3002">>
NoParagraphs ==
    <<"U7121", "U6CD5", "U5207", "U5206", "U51FA", "U4EFB", "U4F55", "U6BB5", "U843D",
      "UFF1A", "U8ACB", "U78BA", "U8A8D", "U8F38", "U5165", "U6587", "U5B57", "U5167",
      "U5BB9", "U3002">>
ThresholdOutOfRange ==
    <<"t", "o", "p", "i", "c", "_", "t", "h", "r", "e", "s", "h", "o", "l", "d", " ",
      "U8D85", "U51FA", "U7BC4", "U570D", "UFF1A", "U5FC5", "U9808", "U4ECB", "U65BC",
      " ", "0", ".", "0", "U2013", "1", ".", "0", "U3002">>
MaxTopicsOutOfRange ==
    <<"m", "a", "x", "_", "t", "o", "p", "i", "c", "s", " ", "U8D85", "U51FA", "U7BC4",
      "U570D", "UFF1A", "U6700", "U5C0F", "U70BA", " ", "1", "U3002">>
MaxBulletsOutOfRange ==
    <<"m", "a", "x", "_", "b", "u", "l", "l", "e", "t", "s", " ", "U8D85", "U51FA",
      "U7BC4", "U570D", "UFF1A", "U5FC5", "U9808", "U4ECB", "U65BC", " ", "1", "U2013",
      "5", "U3002">>

\* one iteration of "for raw in lines": st is [paras, buf]
SplitFlush(st) ==
    [st EXCEPT !.paras = IF Strip(Join(st.buf, <<"\n">>)) # << >>
                         THEN Append(@, Strip(Join(st.buf, <<"\n">>))) ELSE @,
               !.buf = << >>]
SplitLine(st, raw) ==
    LET Stepped(line) ==
            IF Strip(line) = << >> THEN SplitFlush(st)
            ELSE IF LStrip(line)[1] = "#"
            THEN [SplitFlush(st) EXCEPT !.buf = <<Strip(line)>>]
            ELSE IF ListItemMatches(line)
            THEN [SplitFlush(st) EXCEPT !.paras = Append(@, Strip(line))]
            ELSE [st EXCEPT !.buf = Append(@, line)]
    IN  Stepped(RStrip(raw))
RECURSIVE SplitLoop(_, _)
SplitLoop(st, lines) ==
    IF lines = << >> THEN st ELSE SplitLoop(SplitLine(st, Head(lines)), Tail(lines))
split_paragraphs(t) ==
    SplitFlush(SplitLoop([paras |-> << >>, buf |-> << >>],
                         SplitLines(NormalizeNewlines(t)))).paras

\* text.replace("\n", " ")
NewlinesToSpaces(s) == [i \in DOMAIN s |-> IF s[i] = "\n" THEN " " ELSE s[i]]
_compact_spaces(s) == Strip(CollapseSpaces(s))

\* s.split(sep, 1)[0]
RECURSIVE BeforeFirst(_, _)
BeforeFirst(s, sep) ==
    IF s = << >> \/ Head(s) = sep THEN << >>
    ELSE <<Head(s)>> \o BeforeFirst(Tail(s), sep)

summarize(paragraph_text, limit) ==
    LET Heads(s) == [k \in DOMAIN SentenceSeps |->
                        IF SentenceSeps[k] \in Range(s)
                        THEN Strip(BeforeFirst(s, SentenceSeps[k])) ELSE << >>]
        FirstHead(s, heads) ==
            IF \E k \in DOMAIN heads : heads[k] # << >>
            THEN heads[CHOOSE k \in DOMAIN heads :
                          heads[k] # << >> /\ \A j \in 1..(k - 1) : heads[j] = << >>]
            ELSE s
        Capped(s) == IF Len(s) <= limit THEN s ELSE RStrip(Prefix(s, limit))
        Sentence(s) == Capped(FirstHead(s, Heads(s)))
    IN  Sentence(_compact_spaces(NewlinesToSpaces(paragraph_text)))

\* re.findall(r"[\u4e00-\u9fff]{2,}", s)
RECURSIVE FindCJKRuns(_)
FindCJKRuns(s) ==
    IF s = << >> THEN << >>
    ELSE IF CJKRunLength(s) >= 2
         THEN <<Prefix(s, CJKRunLength(s))>> \o FindCJKRuns(Drop(s, CJKRunLength(s)))
         ELSE FindCJKRuns(Tail(s))
\* re.findall(r"[\u4e00-\u9fff]{2,}|[A-Za-z0-9_-]{2,}", summ)
RECURSIVE FindFragments(_)
FindFragments(s) ==
    IF s = << >> THEN << >>
    ELSE IF CJKRunLength(s) >= 2
         THEN <<Prefix(s, CJKRunLength(s))>> \o FindFragments(Drop(s, CJKRunLength(s)))
         ELSE IF WordRunLength(s) >= 2
         THEN <<Prefix(s, WordRunLength(s))>> \o FindFragments(Drop(s, WordRunLength(s)))
         ELSE FindFragments(Tail(s))

LowerAll(words) == [i \in DOMAIN words |-> Lower(words[i])]

extract_keywords(paragraph_text, max_keywords) ==
    LET Tokens(cjk, latin) ==
            cjk \o SelectIdx(latin, {i \in DOMAIN latin : latin[i] \notin PipelineStopwords})
        Fallback(s) == Prefix(Unique(FindFragments(summarize(s, SummaryLimit))), max_keywords)
        OrKeyPoint(picked) == IF picked = << >> THEN <<KeyPoint>> ELSE picked
        Picked(s, picked) == IF picked # << >> THEN picked ELSE OrKeyPoint(Fallback(s))
        Keywords(s) ==
            IF s = << >> THEN <<KeyPoint>>
            ELSE Prefix(Picked(s, Prefix(Ranked(Tokens(FindCJKRuns(s),
                                                       LowerAll(FindLatinWords(s)))),
                                         max_keywords)),
                        Max2(1, Min2(max_keywords, 5)))
    IN  Keywords(_compact_spaces(NewlinesToSpaces(paragraph_text)))

_tokenize_for_embed(t) ==
    LET OnlyCJK(s) == SelectIdx(s, {i \in DOMAIN s : IsCJK(s[i])})
        Bigrams(only) == [i \in 1..Min2(Len(only) - 1, 20) |-> <<only[i], only[i + 1]>>]
        Otherwise(s, only) ==
            IF Len(only) >= 2 THEN Bigrams(only)
            ELSE IF s # << >> THEN <<Prefix(s, 8)>> ELSE << >>
        Tokens(s, tokens) == IF tokens # << >> THEN tokens ELSE Otherwise(s, OnlyCJK(s))
        Tokenized(s) == Tokens(s, FindCJKRuns(s) \o LowerAll(FindLatinWords(s)))
    IN  Tokenized(_compact_spaces(NewlinesToSpaces(t)))

\* md5(tok.encode("utf-8")).digest(), for the tokens of the model:
\* <<int.from_bytes(h[:2], "big"), h[2], h[3]>>
Md5Prefix(tok) ==
    CASE tok = <<"a", "b">> -> <<6270, 244, 67>>
      [] tok = <<"U91CD", "U9EDE">> -> <<5689, 121, 108>>
      [] tok = <<"c", "d">> -> <<26725, 174, 179>>
      [] tok = <<"b", "e">> -> <<37129, 85, 169>>
      [] tok = <<"U4E2D", "U6587">> -> <<42938, 194, 35>>
      [] tok = <<"a", "b", "c">> -> <<36865, 80, 152>>
      [] tok = <<"b", "c", "d">> -> <<54455, 194, 132>>

_l2_normalize(v) ==
    LET Scaled(n) == IF n <= 0 THEN v ELSE [i \in DOMAIN v |-> FDiv(v[i] * Scale, n)]
    IN  Scaled(Norm(v))

embed_text(t, dim) ==
    LET \* sign * mag
        Term(h) == (IF h[2] % 2 = 0 THEN 1 ELSE 0 - 1) * (Scale + ((h[3] * Scale) \div 255))
        Summed(hs) ==
            [i \in 1..dim |->
                SumSeq([k \in DOMAIN hs |-> IF hs[k][1] % dim = i - 1 THEN Term(hs[k]) ELSE 0])]
        Embedded(tokens) ==
            IF tokens = << >> THEN [i \in 1..dim |-> IF i = 1 THEN Scale ELSE 0]
            ELSE _l2_normalize(Summed([k \in DOMAIN tokens |-> Md5Prefix(tokens[k])]))
    IN  Embedded(_tokenize_for_embed(t))

\* the texts of the model give similarities of exactly 0 or 1, or ones that no
\* threshold of the model is close to
cosine(a, b) == FDiv(SumSeq([i \in DOMAIN a |-> a[i] * b[i]]), Scale)

TopicCluster(p) ==
    [memberIds |-> <<p.id>>, centroid |-> p.embedding, minSourceIndex |-> p.sourceIndex]

_assign_to_cluster(cluster, p) ==
    LET Averaged(n) == [i \in DOMAIN cluster.centroid |->
                           FDiv(cluster.centroid[i] * n + p.embedding[i], n + 1)]
    IN  [memberIds |-> Append(cluster.memberIds, p.id),
         centroid |-> _l2_normalize(Averaged(Len(cluster.memberIds))),
         minSourceIndex |-> Min2(cluster.minSourceIndex, p.sourceIndex)]

\* one iteration of "for p in paragraphs"; max(sims, key=(sim, -i)) is the
\* first of the most similar clusters
ClusterStep(clusters, p, topic_threshold, max_topics) ==
    LET Placed(best_i, best_sim) ==
            IF best_sim >= topic_threshold \/ Len(clusters) >= max_topics
            THEN [clusters EXCEPT ![best_i] = _assign_to_cluster(@, p)]
            ELSE Append(clusters, TopicCluster(p))
        Best(sims) == Placed(FirstArgMax(sims), sims[FirstArgMax(sims)])
    IN  IF clusters = << >> THEN <<TopicCluster(p)>>
        ELSE Best([i \in DOMAIN clusters |-> cosine(p.embedding, clusters[i].centroid)])
RECURSIVE ClusterLoop(_, _, _, _)
ClusterLoop(clusters, ps, topic_threshold, max_topics) ==
    IF ps = << >> THEN clusters
    ELSE ClusterLoop(ClusterStep(clusters, Head(ps), topic_threshold, max_topics),
                     Tail(ps), topic_threshold, max_topics)
\* sort(key=minSourceIndex)
BySourceIndex(items) ==
    StableSort(items, [i \in DOMAIN items |-> <<items[i].minSourceIndex, << >> >>])
cluster_paragraphs(ps, topic_threshold, max_topics) ==
    BySourceIndex(ClusterLoop(<< >>, ps, topic_threshold, max_topics))

\* paragraphs_by_id[pid]
ById(ps, pid) == ps[CHOOSE i \in DOMAIN ps : ps[i].id = pid]

_topic_title(ps, member_ids) ==
    LET Titled(freq) ==
            IF freq # << >> THEN Ranked(freq)[1]
            ELSE IF ById(ps, member_ids[1]).summary # << >>
            THEN Prefix(ById(ps, member_ids[1]).summary, TitleLimit)
            ELSE UnnamedTopic
    IN  Titled(Concat([k \in DOMAIN member_ids |-> ById(ps, member_ids[k]).keywords]))

_dedupe_preserve_order(items) == Unique(items)

\* lines 372-378: the chunks of a topic's memberIds
Chunks(member_ids) ==
    LET Halved(mid) == <<Prefix(member_ids, mid), Drop(member_ids, mid)>>
    IN  IF Len(member_ids) > BSplitAbove
        THEN Halved(IF Len(member_ids) \div 2 = 0 THEN 1 ELSE Len(member_ids) \div 2)
        ELSE <<member_ids>>

\* lines 380-398: the cards of one topic, numbered from card_counter
TopicCards(ps, t, card_counter, max_bullets) ==
    LET Bullets(found) == IF found = << >> THEN <<t.title>> ELSE found
        Summaries(chunk) ==
            SelectIdx([k \in DOMAIN chunk |-> ById(ps, chunk[k]).summary],
                      {k \in DOMAIN chunk : ById(ps, chunk[k]).summary # << >>})
        Cards(chunks) ==
            [c \in DOMAIN chunks |->
                [id |-> MakeId("c", card_counter + c - 1),
                 topicId |-> t.id,
                 title |-> IF Len(chunks) = 2
                           THEN t.title \o (IF c = 1 THEN UpperPart ELSE LowerPart)
                           ELSE t.title,
                 bullets |-> Bullets(Prefix(_dedupe_preserve_order(Summaries(chunks[c])),
                                            max_bullets))]]
    IN  Cards(Chunks(t.memberIds))
RECURSIVE CardsLoop(_, _, _, _)
CardsLoop(ps, ts, cards, max_bullets) ==
    IF ts = << >> THEN cards
    ELSE CardsLoop(ps, Tail(ts),
                   cards \o TopicCards(ps, Head(ts), Len(cards) + 1, max_bullets),
                   max_bullets)

\* what build_deck gives: the deck it returns or the ProcessingError it raises
Built(d) == [raised |-> FALSE, error |-> << >>, deck |-> d]
EmptyDeck == [paragraphs |-> << >>, topics |-> << >>, cards |-> << >>,
              stats |-> [paragraphCount |-> 0, topicCount |-> 0, cardCount |-> 0]]
ProcessingError(message) == [raised |-> TRUE, error |-> message, deck |-> EmptyDeck]

build_deck(t, topic_threshold, max_topics, max_bullets) ==
    LET Made(i, ptxt, summ, kws) ==
            [id |-> MakeId("p", i), text |-> ptxt, summary |-> summ, keywords |-> kws,
             sourceIndex |-> i - 1,
             embedding |-> embed_text(summ \o <<" ">> \o Join(kws, <<" ">>), EMBED_DIM)]
        Paragraphs(para_texts) ==
            [i \in DOMAIN para_texts |->
                Made(i, para_texts[i], summarize(para_texts[i], SummaryLimit),
                     extract_keywords(para_texts[i], 5))]
        Sorted(ps, ids) ==
            StableSort(ids, [k \in DOMAIN ids |-> <<ById(ps, ids[k]).sourceIndex, << >> >>])
        Topic(ps, c, member_ids) ==
            [id |-> << >>, title |-> _topic_title(ps, member_ids), memberIds |-> member_ids,
             minSourceIndex |-> c.minSourceIndex]
        Topics(ps, clusters) ==
            [k \in DOMAIN clusters |-> Topic(ps, clusters[k], Sorted(ps, clusters[k].memberIds))]
        Numbered(ts) ==
            [k \in DOMAIN ts |->
                [id |-> MakeId("t", k), title |-> ts[k].title, memberIds |-> ts[k].memberIds]]
        Deck(ps, ts, cards) ==
            [paragraphs |-> [i \in DOMAIN ps |->
                                [id |-> ps[i].id, text |-> ps[i].text,
                                 summary |-> ps[i].summary,
                                 keywords |-> IF ps[i].keywords # << >>
                                              THEN Prefix(ps[i].keywords, 5)
                                              ELSE <<KeyPoint>>,
                                 sourceIndex |-> ps[i].sourceIndex]],
             topics |-> ts, cards |-> cards,
             stats |-> [paragraphCount |-> Len(ps), topicCount |-> Len(ts),
                        cardCount |-> Len(cards)]]
        Carded(ps, ts) == Deck(ps, ts, CardsLoop(ps, ts, << >>, max_bullets))
        Clustered(ps, clusters) ==
            Carded(ps, Numbered(BySourceIndex(Topics(ps,
                IF clusters = << >> THEN <<TopicCluster(ps[1])>> ELSE clusters))))
        Checked(ps) ==
            IF topic_threshold < 0 \/ topic_threshold > Scale
            THEN ProcessingError(ThresholdOutOfRange)
            ELSE IF max_topics < 1 THEN ProcessingError(MaxTopicsOutOfRange)
            ELSE IF max_bullets < 1 \/ max_bullets > 5
            THEN ProcessingError(MaxBulletsOutOfRange)
            ELSE Built(Clustered(ps, cluster_paragraphs(ps, topic_threshold, max_topics)))
        Split(para_texts) ==
            IF para_texts = << >> THEN ProcessingError(NoParagraphs)
            ELSE Checked(Paragraphs(para_texts))
        Stripped(raw) ==
            IF raw = << >> THEN ProcessingError(EmptyInput)
            ELSE IF Len(raw) > MAX_INPUT_CHARS THEN ProcessingError(InputTooLong(Len(raw)))
            ELSE Split(split_paragraphs(raw))
    IN  Stripped(Strip(t))

---------------------------------------------------------------------------
(* backend/api.py: POST /api/process.  FastAPI validates the body against  *)
(* ProcessRequest before it calls process(); the bodies of the model are   *)
(* JSON objects whose numbers are whole.                                   *)

\* str(out_path), below REPO_ROOT
OutputPath ==
    <<"f", "r", "o", "n", "t", "e", "n", "d", "/", "p", "u", "b", "l", "i", "c", "/",
      "d", "e", "c", "k", ".", "j", "s", "o", "n">>
\* the messages of the handlers
TextRequired == <<"t", "e", "x", "t", " ", "U70BA", "U5FC5", "U586B", "U6B04", "U4F4D">>
ParameterError == <<"U53C3", "U6578", "U932F", "U8AA4">>
InternalError == <<"U5167", "U90E8", "U932F", "U8AA4", "UFF1A">>
ValueErrorPrefix == <<"V", "a", "l", "u", "e", " ", "e", "r", "r", "o", "r", ",", " ">>
\* the messages of pydantic
FieldRequired == <<"F", "i", "e", "l", "d", " ", "r", "e", "q", "u", "i", "r", "e", "d">>
InputShouldBe == <<"I", "n", "p", "u", "t", " ", "s", "h", "o", "u", "l", "d", " ", "b", "e", " ">>
ValidString == InputShouldBe \o <<"a", " ", "v", "a", "l", "i", "d", " ", "s", "t", "r", "i", "n", "g">>
ValidNumber == InputShouldBe \o <<"a", " ", "v", "a", "l", "i", "d", " ", "n", "u", "m", "b", "e", "r">>
ValidBoolean ==
    InputShouldBe \o <<"a", " ", "v", "a", "l", "i", "d", " ", "b", "o", "o", "l", "e", "a", "n">>
AtLeast(n) ==
    InputShouldBe \o <<"g", "r", "e", "a", "t", "e", "r", " ", "t", "h", "a", "n", " ", "o", "r",
                       " ", "e", "q", "u", "a", "l", " ", "t", "o", " ">> \o Decimal(n)
AtMost(n) ==
    InputShouldBe \o <<"l", "e", "s", "s", " ", "t", "h", "a", "n", " ", "o", "r", " ", "e", "q",
                       "u", "a", "l", " ", "t", "o", " ">> \o Decimal(n)
\* str(e) of the OSError that write_text raises on a full disk
DiskFull ==
    <<"[", "E", "r", "r", "n", "o", " ", "2", "8", "]", " ", "N", "o", " ", "s", "p", "a",
      "c", "e", " ", "l", "e", "f", "t", " ", "o", "n", " ", "d", "e", "v", "i", "c", "e">>

\* one entry of RequestValidationError.errors()
FieldError(type, field, msg) == [type |-> type, loc |-> <<"body", field>>, msg |-> msg]

\* text: str = Field(...) and _non_empty_text, which runs on a str
TextErrors(body) ==
    IF ~Has(body, "text") THEN <<FieldError("missing", "text", FieldRequired)>>
    ELSE IF ~IsStr(body.v["text"])
    THEN <<FieldError("string_type", "text", ValidString)>>
    ELSE IF Strip(body.v["text"].v) = << >>
    THEN <<FieldError("value_error", "text", ValueErrorPrefix \o EmptyInput)>>
    ELSE << >>
\* Field(default, ge=lo) and Field(default, ge=lo, le=hi)
NumberErrors(body, field, lo, hi, capped) ==
    IF ~Has(body, field) THEN << >>
    ELSE IF body.v[field].kind # "int"
    THEN <<FieldError("number_type", field, ValidNumber)>>
    ELSE IF body.v[field].v < lo
    THEN <<FieldError("greater_than_equal", field, AtLeast(lo))>>
    ELSE IF capped /\ body.v[field].v > hi
    THEN <<FieldError("less_than_equal", field, AtMost(hi))>>
    ELSE << >>
DebugErrors(body) ==
    IF Has(body, "debug") /\ body.v["debug"].kind # "bool"
    THEN <<FieldError("bool_type", "debug", ValidBoolean)>> ELSE << >>
\* the errors of the body, in the order of the fields of ProcessRequest
ProcessRequestErrors(body) ==
    TextErrors(body)
    \o NumberErrors(body, "topic_threshold", 0, 1, TRUE)
    \o NumberErrors(body, "max_topics", 1, 1, FALSE)
    \o NumberErrors(body, "max_bullets", 1, 5, TRUE)
    \o DebugErrors(body)
\* the ProcessRequest of a body without errors
ProcessRequest(body) ==
    [text |-> body.v["text"].v,
     topic_threshold |-> IF Has(body, "topic_threshold")
                         THEN body.v["topic_threshold"].v * Scale ELSE (3 * Scale) \div 4,
     max_topics |-> IF Has(body, "max_topics") THEN body.v["max_topics"].v ELSE 5,
     max_bullets |-> IF Has(body, "max_bullets") THEN body.v["max_bullets"].v ELSE 5,
     debug |-> Has(body, "debug") /\ body.v["debug"].v]

\* JSONResponse(status_code=status_code, content=body)
fastapi_json(status_code, body) == [status |-> status_code, body |-> body]
ErrorResponse(error) == [ok |-> FALSE, error |-> error]
HTTPException(status_code, detail) == [status_code |-> status_code, detail |-> detail]

\* every detail that process() raises is a str
http_exception_handler(exc) == fastapi_json(exc.status_code, ErrorResponse(exc.detail))

\* what FastAPI answers when no handler is registered for the error
default_validation_handler(errs) == fastapi_json(422, [detail |-> errs])

StartsWith(s, prefix) == Prefix(s, Len(prefix)) = prefix
request_validation_exception_handler(errs) ==
    LET Normalized(raw_msg) ==
            IF StartsWith(raw_msg, ValueErrorPrefix)
            THEN Drop(raw_msg, Len(ValueErrorPrefix)) ELSE raw_msg
    IN  IF errs = << >> THEN fastapi_json(400, ErrorResponse(ParameterError))
        ELSE IF errs[1].type = "missing" /\ errs[1].loc # << >>
                /\ errs[1].loc[Len(errs[1].loc)] = "text"
        THEN fastapi_json(400, ErrorResponse(TextRequired))
        ELSE IF errs[1].msg # << >>
        THEN fastapi_json(400, ErrorResponse(Normalized(errs[1].msg)))
        ELSE fastapi_json(400, ErrorResponse(ParameterError))

\* lines 116-131: debug is None or the dict, here no item or one
ProcessResponse(req, d) ==
    [ok |-> TRUE, deck |-> d, outputPath |-> OutputPath, stats |-> d.stats,
     debug |-> IF req.debug
               THEN <<[topicThreshold |-> req.topic_threshold, maxTopics |-> req.max_topics,
                       maxBullets |-> req.max_bullets]>>
               ELSE << >>]

---------------------------------------------------------------------------
(* backend/agent_a.py: split_paragraphs                                    *)

\* the backtick, which a string of the model cannot hold
Backtick == "U0060"
Fence == <<Backtick, Backtick, Backtick>>
\* re.match of ^\s* and three backticks
FenceMatches(line) == Prefix(LStrip(line), 3) = Fence

\* _is_heading: ^(#{1,6})\s+(.+?)\s*$ needs a space and one more character
\* after the marks; the title is group 2 stripped, empty when all is space
_is_heading(line) ==
    [matched |-> /\ LeadingHashes(line) >= 1 /\ LeadingHashes(line) <= 6
                 /\ Len(line) >= LeadingHashes(line) + 2
                 /\ IsSpace(line[LeadingHashes(line) + 1]),
     level |-> LeadingHashes(line),
     title |-> Strip(Drop(line, LeadingHashes(line)))]

\* _is_list_item: ^(\s*)([-*+])\s+(.+?)\s*$ or ^(\s*)(\d+)[.)]\s+(.+?)\s*$
_is_list_item(line) ==
    LET Found(a) ==
            [matched |-> a[1] = "ok" /\ Len(a[2]) >= 2 /\ IsSpace(a[2][1]),
             content |-> Strip(a[2]),
             indent |-> LeadingSpaces(line)]
    IN  Found(AfterListMarker(line))

\* a paragraph dict; headingLevel 0 and sectionPath << >> stand for the keys
\* that the dict does not have
FParagraph(content, level, path) ==
    [text |-> content, headingLevel |-> level, sectionPath |-> path]

NoPath == [some |-> FALSE, path |-> << >>]
SomePath(path) == [some |-> TRUE, path |-> path]

\* flush_buf()
FFlushBuf(st) ==
    [st EXCEPT !.paragraphs =
                   IF Strip(Join(st.buf, <<"\n">>)) # << >>
                   THEN Append(@, FParagraph(Strip(Join(st.buf, <<"\n">>)), 0,
                                             st.buf_section_path.path))
                   ELSE @,
               !.buf = << >>,
               !.buf_section_path = NoPath]

\* lines 104-116: a fence line opens or closes a code block
FFence(st, line) ==
    IF ~st.in_code
    THEN [FFlushBuf(st) EXCEPT !.in_code = TRUE,
                               !.buf_section_path = SomePath(st.section_path),
                               !.buf = <<line>>,
                               !.i = st.i + 1]
    ELSE [FFlushBuf([st EXCEPT !.buf = Append(@, line)])
             EXCEPT !.in_code = FALSE, !.i = st.i + 1]

\* lines 118-123 and 176-180: a line of a code block, or a body line
FBuffer(st, line) ==
    [st EXCEPT !.buf_section_path = IF @.some THEN @ ELSE SomePath(st.section_path),
               !.buf = Append(@, line),
               !.i = @ + 1]

\* lines 125-143: a heading line
FHeading(st, h) ==
    LET Opened(path) ==
            [FFlushBuf(st) EXCEPT !.section_path = path,
                                  !.paragraphs = Append(@, FParagraph(h.title, h.level, path)),
                                  !.i = st.i + 1]
    IN  Opened(Append(Prefix(st.section_path, h.level - 1), h.title))

\* lines 156-167: the continuation lines of a list item; <<j, item_lines>>
RECURSIVE FAbsorb(_, _, _, _)
FAbsorb(lines, j, item_indent, item_lines) ==
    IF j > Len(lines) THEN <<j, item_lines>>
    ELSE IF \/ Strip(lines[j]) = << >>
            \/ _is_heading(lines[j]).matched
            \/ _is_list_item(lines[j]).matched
            \/ LeadingSpaces(lines[j]) <= item_indent
    THEN <<j, item_lines>>
    ELSE FAbsorb(lines, j + 1, item_indent, Append(item_lines, Strip(lines[j])))

\* lines 150-174: a list item
FListItem(st, li) ==
    LET Taken(r) ==
            [FFlushBuf(st) EXCEPT !.paragraphs =
                                      Append(@, FParagraph(Strip(Join(r[2], <<"\n">>)), 0,
                                                           st.section_path)),
                                  !.i = r[1]]
    IN  Taken(FAbsorb(st.lines, st.i + 1, li.indent, <<li.content>>))

\* lines 182-186: the last flush, then id and idx by position
FFinish(st) ==
    LET Numbered(ps) ==
            [k \in DOMAIN ps |->
                [id |-> MakeId("p", k), idx |-> k - 1, text |-> ps[k].text,
                 headingLevel |-> ps[k].headingLevel, sectionPath |-> ps[k].sectionPath]]
    IN  [FFlushBuf(st) EXCEPT !.paragraphs = Numbered(@), !.done = TRUE]

\* the locals of split_paragraphs before its loop; i counts from 1
FStart(t) ==
    [lines |-> SplitLines(NormalizeNewlines(t)), i |-> 1, paragraphs |-> << >>,
     section_path |-> << >>, in_code |-> FALSE, buf |-> << >>,
     buf_section_path |-> NoPath, done |-> FALSE]

---------------------------------------------------------------------------
(* Inputs                                                                  *)

\* the lines short texts are made of: blank, heading, list item, prose with
\* two sentences, a line without any token, CJK
LineKinds ==
    { << >>, <<"#", " ", "A", "b">>, <<"-", " ", "a", "b">>, <<"a", "b", " ", "c", "d", ".", " ", "a", "b">>, <<"a">>, <<"U4E2D", "U6587">> }

\* every text of 1..MaxLines such lines
ShortTexts ==
    {Join(ls, <<"\n">>) : ls \in UNION {[1..n -> LineKinds] : n \in 1..MaxLines}}

\* the item texts of long lists: plain words, a stopword, two words, CJK
ItemWords ==
    << <<"a", "b">>, <<"a", "b", "c">>, <<"b", "e">>, <<"b", "c", "d">>, <<"c", "d", " ", "a", "b", "c">>, <<"U4E2D", "U6587">>, <<"a", "b", "c", " ", "b", "c", "d">> >>

\* lists of n items, all equal (stride 0) or running through ItemWords (stride 1)
LongText(n, stride) ==
    Join([i \in 1..n |-> <<"-", " ">> \o ItemWords[(((i - 1) * stride) % Len(ItemWords)) + 1]],
         <<"\n">>)
LongTexts == {LongText(n, stride) : n \in 1..MaxItems, stride \in 0..1}

\* what datetime.now() can return
Clock == 0..MaxClock

L2CShortOptions ==
    { AnalyzeOptions,
      [AnalyzeOptions EXCEPT !.language = "en"],
      [AnalyzeOptions EXCEPT !.language = "zh"],
      [AnalyzeOptions EXCEPT !.topic_threshold = 0, !.verbose = TRUE],
      [AnalyzeOptions EXCEPT !.max_chars = SmallMaxChars],
      [AnalyzeOptions EXCEPT !.max_topics = 0],
      [AnalyzeOptions EXCEPT !.max_bullets_per_card = 3] }

L2CLongOptions ==
    { [AnalyzeOptions EXCEPT !.topic_threshold = c[1], !.max_topics = c[2],
                             !.max_bullets_per_card = b[1],
                             !.target_bullets_per_card = b[2]] :
        c \in { <<0, 5>>, <<(3 * Scale) \div 4, 1>>, <<(3 * Scale) \div 4, 2>>,
                <<(3 * Scale) \div 4, 5>>, <<Scale, 3>> },
        b \in { <<5, 4>>, <<5, 5>>, <<1, 1>> } }

L2CInputs == (ShortTexts \X L2CShortOptions) \cup (LongTexts \X L2CLongOptions)

English == <<"e", "n">>

AShortOptions ==
    { PipelineOptions,
      [PipelineOptions EXCEPT !.language = English],
      [PipelineOptions EXCEPT !.language = English, !.topicThreshold = 0],
      [PipelineOptions EXCEPT !.language = English, !.maxChars = SmallMaxChars] }

\* the schema of PipelineOptions does not relate target and max
ALongOptions ==
    { [PipelineOptions EXCEPT !.language = English,
                              !.topicThreshold = c[1], !.maxTopics = c[2],
                              !.maxBulletsPerCard = b[1],
                              !.targetBulletsPerCard = b[2],
                              !.maxSummaryBulletsPerTopic = b[3]] :
        c \in { <<0, 5>>, <<(3 * Scale) \div 4, 1>>, <<(3 * Scale) \div 4, 2>>,
                <<(3 * Scale) \div 4, 5>>, <<Scale, 3>> },
        b \in { <<5, 4, 5>>, <<2, 5, 1>>, <<1, 1, 3>> } }
    \cup { PipelineOptions }

AInputs == (ShortTexts \X AShortOptions) \cup (LongTexts \X ALongOptions)

---------------------------------------------------------------------------
(* The state machine: one call of the pipeline, the validation of the deck *)
(* it returned, then a second, independent call on the same input.         *)

VARIABLES
    impl,        \* which implementation runs: "l2c" or "agent_a"
    text, opt,   \* the arguments of the call
    run,         \* 1 for the first call, 2 for the second
    pc,          \* "start", "cluster", "returned", "validated", "failed"
    err,         \* the error raised, "none" while there is none
    paragraphs, lang, keypoints, vectors,
    topics, centroids,   \* the open topics of the clustering pass
    next,        \* position (1-based) of the next paragraph to cluster
    deck,        \* the deck returned
    validation,  \* validate_deck(deck)
    first        \* outcome of the first call, kept for the second

\* the process around the call: cmd_generate of backend/cli.py
VARIABLES
    infile,      \* what reading --input gives: "ok", "missing" or "undecodable"
    force,       \* --force was given
    outfile,     \* the file at --output
    exitcode,    \* exit status of the process, NoExit while it runs
    stdout       \* the document cmd_analyze printed, JNull when none

cliVars == <<infile, force, outfile, exitcode, stdout>>

\* a validator called on a file: cmd_validate of backend/cli.py, agent_a.py
VARIABLES
    edit,        \* how the file differs from the deck that was written
    doc,         \* json.loads of the file
    verdict      \* what the validator gave, NoVerdict before it ran

docVars == <<edit, doc, verdict>>

\* the socket server: one request in _Handler.do_POST
VARIABLES
    request,     \* the Content-Length header and the body of the request
    responses    \* the responses sent, in order

srvVars == <<request, responses>>

\* the API service: the requests that process() of backend/api.py handles at
\* the same time, and the file all of them write
VARIABLES
    calls,       \* for each request its body, the step of its handler, the deck
                 \* it built, its response and the file as it was when it returned
    deckfile     \* frontend/public/deck.json

apiVars == <<calls, deckfile>>

\* the functions checked on their own, outside any pipeline: the similarities
\* a step of the clustering pass has computed and the topic each scan picks
VARIABLES
    similarities,  \* of the current paragraph to the open topics, in FineUnit
    choice,        \* per scan the index it picked, 0 before it ran
    seg            \* the locals of split_paragraphs of backend/agent_a.py

pureVars == <<similarities, choice, seg>>

\* everything outside the call of the pipeline, outside the process of
\* cmd_generate, outside the validation of a file, outside the server
others == <<cliVars, docVars, srvVars, apiVars, pureVars>>
besideCli == <<docVars, srvVars, apiVars, pureVars>>
besideDoc == <<cliVars, srvVars, apiVars, pureVars>>
besideServe == <<cliVars, docVars, apiVars, pureVars>>
besideApi == <<cliVars, docVars, srvVars, pureVars>>
besidePure == <<cliVars, docVars, srvVars, apiVars>>

vars == <<impl, text, opt, run, pc, err, paragraphs, lang, keypoints, vectors,
          topics, centroids, next, deck, validation, first, others>>

NoDeck == [meta |-> [source |-> "", generatedAt |-> 0, schemaVersion |-> ""],
           paragraphs |-> << >>, keypoints |-> << >>, topics |-> << >>,
           cards |-> << >>,
           stats |-> [totalParagraphs |-> 0, totalKeypoints |-> 0, totalTopics |-> 0,
                      totalCards |-> 0],
           debug |-> << >>]
NoValidation == [ok |-> FALSE, errors |-> << >>]
NoOutcome == [pc |-> "start", err |-> "none", deck |-> NoDeck]

\* no file at the path, and a file some earlier run left there
NoFile == [exists |-> FALSE, json |-> NoDeck]
OldFile == [exists |-> TRUE, json |-> [NoDeck EXCEPT !.meta.source = "old"]]
NoExit == 0 - 1

NoVerdict == [by |-> "none", raised |-> FALSE, errors |-> << >>]
\* no file under validation
NoDocument == edit = Edit("none", "", 0, "", 0) /\ doc = JNull /\ verdict = NoVerdict

\* no request
NoServer ==
    /\ request = [length |-> "zero", raw |-> "json", payload |-> EmptyDict]
    /\ responses = << >>

\* no request to the API service, and no deck.json yet
NoDeckFile == [exists |-> FALSE, json |-> EmptyDeck]
NoApi == calls = << >> /\ deckfile = NoDeckFile

\* no function under check
NoChoice == [l2c |-> 0, agent_a |-> 0, main |-> 0]
NoScan == similarities = << >> /\ choice = NoChoice
\* no call of split_paragraphs
NoSegment == [FStart(<< >>) EXCEPT !.done = TRUE]
NoPure == NoScan /\ seg = NoSegment

\* no process around the call
CliIdle ==
    infile = "ok" /\ force = FALSE /\ outfile = NoFile /\ exitcode = NoExit /\ stdout = JNull

Fresh ==
    /\ pc = "start" /\ err = "none"
    /\ paragraphs = << >> /\ lang = "en" /\ keypoints = << >> /\ vectors = << >>
    /\ topics = << >> /\ centroids = << >> /\ next = 1
    /\ deck = NoDeck /\ validation = NoValidation

Init ==
    /\ impl \in {"l2c", "agent_a"}
    /\ \E input \in (IF impl = "l2c" THEN L2CInputs ELSE AInputs) :
          text = input[1] /\ opt = input[2]
    /\ run = 1
    /\ first = NoOutcome
    /\ Fresh
    /\ CliIdle
    /\ NoDocument
    /\ NoServer /\ NoApi /\ NoPure

\* analyze_text: from the call to the start of the clustering loop
L2CAnalyze ==
    /\ impl = "l2c" /\ pc = "start"
    /\ \E r \in {L2CPrepare(text, opt)} :
           /\ err' = IF r.err = "ok" THEN "none" ELSE r.err
           /\ pc' = IF r.err = "ok" THEN "cluster" ELSE "failed"
           /\ paragraphs' = r.paragraphs
           /\ lang' = r.lang
           /\ keypoints' = r.keypoints
           /\ vectors' = r.vectors
    /\ UNCHANGED <<others, impl, text, opt, run, topics, centroids, next, deck, validation,
                   first>>

\* _cluster_threshold: one iteration of its loop
L2CCluster ==
    /\ impl = "l2c" /\ pc = "cluster" /\ next <= Len(paragraphs)
    /\ \E cl \in {L2CClusterStep([topics |-> topics, centroids |-> centroids],
                                   paragraphs, vectors, next,
                                   opt.topic_threshold, opt.max_topics)} :
           /\ topics' = cl.topics
           /\ centroids' = cl.centroids
    /\ next' = next + 1
    /\ UNCHANGED <<others, impl, text, opt, run, pc, err, paragraphs, lang, keypoints, vectors,
                   deck, validation, first>>

\* the end of _cluster_threshold and the rest of analyze_text
L2CReturn ==
    /\ impl = "l2c" /\ pc = "cluster" /\ next > Len(paragraphs)
    /\ \E now \in Clock :
          \E named \in {L2CNameTopics(topics, keypoints, lang)} :
              /\ topics' = named
              /\ deck' = L2CAssemble(named, paragraphs, keypoints, lang, opt, now)
    /\ pc' = "returned"
    /\ UNCHANGED <<others, impl, text, opt, run, err, paragraphs, lang, keypoints, vectors,
                   centroids, next, validation, first>>

\* validate_deck on the deck just returned
L2CValidate ==
    /\ impl = "l2c" /\ pc = "returned"
    /\ validation' = validate_deck(deck)
    /\ pc' = "validated"
    /\ UNCHANGED <<others, impl, text, opt, run, err, paragraphs, lang, keypoints, vectors,
                   topics, centroids, next, deck, first>>

\* run_agent_a: from the call to the loop of cluster_topics, the first
\* paragraph already in topic t0
AAnalyze ==
    /\ impl = "agent_a" /\ pc = "start"
    /\ \E r \in {APrepare(text, opt)} :
           /\ err' = IF r.err = "ok" THEN "none" ELSE r.err
           /\ pc' = IF r.err = "ok" THEN "cluster" ELSE "failed"
           /\ paragraphs' = r.paragraphs
           /\ keypoints' = r.keypoints
           /\ vectors' = r.vectors
           /\ IF r.err = "ok"
              THEN \E cl \in {AOpen([topics |-> << >>, centroids |-> << >>],
                                      r.paragraphs[1].id, r.vectors[1])} :
                      topics' = cl.topics /\ centroids' = cl.centroids /\ next' = 2
              ELSE UNCHANGED <<topics, centroids, next>>
    /\ UNCHANGED <<others, impl, text, opt, run, lang, deck, validation, first>>

\* cluster_topics: one iteration of its loop
ACluster ==
    /\ impl = "agent_a" /\ pc = "cluster" /\ next <= Len(paragraphs)
    /\ \E cl \in {AClusterStep([topics |-> topics, centroids |-> centroids],
                                 paragraphs, vectors, next, opt)} :
           /\ topics' = cl.topics
           /\ centroids' = cl.centroids
    /\ next' = next + 1
    /\ UNCHANGED <<others, impl, text, opt, run, pc, err, paragraphs, lang, keypoints, vectors,
                   deck, validation, first>>

\* the end of cluster_topics and the rest of run_agent_a
AReturn ==
    /\ impl = "agent_a" /\ pc = "cluster" /\ next > Len(paragraphs)
    /\ \E d \in {AAssemble(topics, paragraphs, keypoints, opt)} :
           IF AOutputOk(d)
           THEN /\ topics' = d.topics /\ deck' = d /\ pc' = "returned"
                /\ UNCHANGED err
           ELSE /\ err' = "schema" /\ pc' = "failed"
                /\ UNCHANGED <<topics, deck>>
    /\ UNCHANGED <<others, impl, text, opt, run, paragraphs, lang, keypoints, vectors,
                   centroids, next, validation, first>>

\* the caller calls again with the same arguments
SecondCall ==
    /\ run = 1
    /\ pc \in (IF impl = "l2c" THEN {"failed", "validated"} ELSE {"failed", "returned"})
    /\ first' = [pc |-> IF pc = "failed" THEN "failed" ELSE "returned", err |-> err,
                 deck |-> deck]
    /\ run' = 2
    /\ pc' = "start" /\ err' = "none"
    /\ paragraphs' = << >> /\ lang' = "en" /\ keypoints' = << >> /\ vectors' = << >>
    /\ topics' = << >> /\ centroids' = << >> /\ next' = 1
    /\ deck' = NoDeck /\ validation' = NoValidation
    /\ UNCHANGED <<others, impl, text, opt>>

Next ==
    \/ L2CAnalyze
    \/ L2CCluster
    \/ L2CReturn
    \/ L2CValidate
    \/ AAnalyze
    \/ ACluster
    \/ AReturn
    \/ SecondCall

Spec == Init /\ [][Next]_vars

---------------------------------------------------------------------------
(* backend/cli.py: cmd_generate, the process around analyze_text and       *)
(* validate_deck                                                           *)

\* raise SystemExit(message) ends the process with status 1, return 0 with 0
ExitFailure == 1
ExitOk == 0

\* a file of one heading and two body blocks separated by blank lines
HeadingAndTwoBlocks ==
    Join(<< <<"#", " ", "A", "b">>, << >>,
            <<"a", "b", " ", "c", "d", ".", " ", "a", "b">>, << >>,
            <<"a", "b", "c", " ", "b", "c", "d">> >>, <<"\n">>)

\* the AnalyzeOptions cmd_generate builds from its arguments
CliOptions ==
    { [AnalyzeOptions EXCEPT !.source = "in.md"],
      [AnalyzeOptions EXCEPT !.source = "in.md", !.language = "en"],
      [AnalyzeOptions EXCEPT !.source = "in.md", !.max_topics = 0] }

CliInputs == (ShortTexts \cup {HeadingAndTwoBlocks}) \X CliOptions

InitCli ==
    /\ impl = "l2c"
    /\ infile \in {"ok", "missing", "undecodable"}
    /\ \E input \in CliInputs :
          /\ text = (IF infile = "ok" THEN input[1] ELSE << >>)
          /\ opt = input[2]
    /\ force \in BOOLEAN
    /\ outfile \in {NoFile, OldFile}
    /\ exitcode = NoExit /\ stdout = JNull
    /\ NoDocument
    /\ NoServer /\ NoApi /\ NoPure
    /\ run = 1 /\ first = NoOutcome
    /\ pc = "cli" /\ err = "none"
    /\ paragraphs = << >> /\ lang = "en" /\ keypoints = << >> /\ vectors = << >>
    /\ topics = << >> /\ centroids = << >> /\ next = 1
    /\ deck = NoDeck /\ validation = NoValidation

\* CliOpen as it would be if an existing output file were never looked at
CliOpenAnyway ==
    /\ pc = "cli"
    /\ IF infile # "ok"
       THEN pc' = "exited" /\ exitcode' = ExitFailure
       ELSE pc' = "start" /\ UNCHANGED exitcode
    /\ UNCHANGED <<besideCli, stdout, infile, force, outfile, impl, text, opt, run, err, paragraphs, lang,
                   keypoints, vectors, topics, centroids, next, deck, validation, first>>

\* cmd_generate up to the call of analyze_text: the input is read, an
\* existing output is refused unless --force was given
CliOpen ==
    /\ pc = "cli"
    /\ IF infile # "ok" \/ (outfile.exists /\ ~force)
       THEN pc' = "exited" /\ exitcode' = ExitFailure
       ELSE pc' = "start" /\ UNCHANGED exitcode
    /\ UNCHANGED <<besideCli, stdout, infile, force, outfile, impl, text, opt, run, err, paragraphs, lang,
                   keypoints, vectors, topics, centroids, next, deck, validation, first>>

\* except PipelineError as e: raise SystemExit(str(e))
CliPipelineError ==
    /\ exitcode = NoExit /\ pc = "failed"
    /\ pc' = "exited" /\ exitcode' = ExitFailure
    /\ UNCHANGED <<besideCli, stdout, infile, force, outfile, impl, text, opt, run, err, paragraphs, lang,
                   keypoints, vectors, topics, centroids, next, deck, validation, first>>

\* CliWrite as it would be if the deck were written before it is validated
CliWriteFirst ==
    /\ exitcode = NoExit /\ pc = "validated"
    /\ outfile' = [exists |-> TRUE, json |-> deck]
    /\ exitcode' = (IF validation.ok THEN ExitOk ELSE ExitFailure)
    /\ pc' = "exited"
    /\ UNCHANGED <<besideCli, stdout, infile, force, impl, text, opt, run, err, paragraphs, lang,
                   keypoints, vectors, topics, centroids, next, deck, validation, first>>

\* the deck is written when validate_deck accepted it
CliWrite ==
    /\ exitcode = NoExit /\ pc = "validated"
    /\ IF validation.ok
       THEN outfile' = [exists |-> TRUE, json |-> deck] /\ exitcode' = ExitOk
       ELSE exitcode' = ExitFailure /\ UNCHANGED outfile
    /\ pc' = "exited"
    /\ UNCHANGED <<besideCli, stdout, infile, force, impl, text, opt, run, err, paragraphs, lang,
                   keypoints, vectors, topics, centroids, next, deck, validation, first>>

NextCli ==
    \/ CliOpen
    \/ L2CAnalyze
    \/ L2CCluster
    \/ L2CReturn
    \/ L2CValidate
    \/ CliPipelineError
    \/ CliWrite

SpecCli == InitCli /\ [][NextCli]_vars

---------------------------------------------------------------------------
(* backend/cli.py: cmd_analyze, called on the same text and options        *)
(* without --verbose and then with it                                      *)

\* the AnalyzeOptions cmd_analyze builds from its arguments, no --verbose
AnalyzeArguments ==
    { AnalyzeOptions,
      [AnalyzeOptions EXCEPT !.language = "en"],
      [AnalyzeOptions EXCEPT !.topic_threshold = 0],
      [AnalyzeOptions EXCEPT !.max_topics = 0] }

InitAnalyze ==
    /\ impl = "l2c"
    /\ text \in ShortTexts \cup {HeadingAndTwoBlocks}
    /\ opt \in AnalyzeArguments
    /\ run = 1 /\ first = NoOutcome
    /\ Fresh
    /\ CliIdle
    /\ NoDocument
    /\ NoServer /\ NoApi /\ NoPure

\* print(to_pretty_json(deck), end=""); return 0
AnalyzePrint ==
    /\ exitcode = NoExit /\ pc = "returned"
    /\ stdout' = DeckJson(deck)
    /\ exitcode' = ExitOk
    /\ pc' = "exited"
    /\ UNCHANGED <<besideCli, infile, force, outfile, impl, text, opt, run, err, paragraphs,
                   lang, keypoints, vectors, topics, centroids, next, deck, validation, first>>

\* the second process: the same arguments and --verbose
AnalyzeVerbose ==
    /\ run = 1 /\ pc = "exited"
    /\ first' = [pc |-> IF exitcode = ExitOk THEN "returned" ELSE "failed", err |-> err,
                 deck |-> deck, stdout |-> stdout]
    /\ run' = 2
    /\ opt' = [opt EXCEPT !.verbose = TRUE]
    /\ exitcode' = NoExit /\ stdout' = JNull
    /\ pc' = "start" /\ err' = "none"
    /\ paragraphs' = << >> /\ lang' = "en" /\ keypoints' = << >> /\ vectors' = << >>
    /\ topics' = << >> /\ centroids' = << >> /\ next' = 1
    /\ deck' = NoDeck
    /\ UNCHANGED <<besideCli, infile, force, outfile, impl, text, validation>>

NextAnalyze ==
    \/ L2CAnalyze
    \/ L2CCluster
    \/ L2CReturn
    \/ CliPipelineError
    \/ AnalyzePrint
    \/ AnalyzeVerbose

SpecAnalyze == InitAnalyze /\ [][NextAnalyze]_vars

---------------------------------------------------------------------------
(* The validators on files: a deck that analyze_text returned is written,  *)
(* edited in one place, loaded and validated.                              *)

\* a heading and two blocks, two list items, a list of nine equal items
DocTexts ==
    {HeadingAndTwoBlocks,
     Join(<< <<"-", " ", "a", "b">>, <<"-", " ", "c", "d">> >>, <<"\n">>),
     LongText(VSplitAbove + 1, 0)}

InitValidate ==
    /\ impl = "l2c"
    /\ text \in DocTexts
    /\ opt = AnalyzeOptions
    /\ run = 1
    /\ first = NoOutcome
    /\ Fresh
    /\ CliIdle
    /\ NoDocument
    /\ NoServer /\ NoApi /\ NoPure

\* json.loads(raw) of the file
LoadDocument ==
    /\ pc = "returned"
    /\ \E e \in EditsOf(DeckJson(deck)) : edit' = e /\ doc' = Edited(DeckJson(deck), e)
    /\ pc' = "loaded"
    /\ UNCHANGED <<verdict, besideDoc, impl, text, opt, run, err, paragraphs, lang, keypoints,
                   vectors, topics, centroids, next, deck, validation, first>>

Judged(by, result) == [by |-> by, raised |-> result.raised, errors |-> result.errors]

\* learn2cards.validate.validate_deck(deck)
ValidateDocument ==
    /\ pc = "loaded"
    /\ verdict' = Judged("learn2cards", validate_deck_any(doc))
    /\ pc' = "judged"
    /\ UNCHANGED <<edit, doc, besideDoc, impl, text, opt, run, err, paragraphs, lang, keypoints,
                   vectors, topics, centroids, next, deck, validation, first>>

\* agent_a.validate_deck(load_deck_json(path))
ValidateDocumentA ==
    /\ pc = "loaded"
    /\ verdict' = Judged("agent_a", agent_a_validate_deck(doc))
    /\ pc' = "judged"
    /\ UNCHANGED <<edit, doc, besideDoc, impl, text, opt, run, err, paragraphs, lang, keypoints,
                   vectors, topics, centroids, next, deck, validation, first>>

NextValidate ==
    \/ L2CAnalyze
    \/ L2CCluster
    \/ L2CReturn
    \/ LoadDocument
    \/ ValidateDocument
    \/ ValidateDocumentA

SpecValidate == InitValidate /\ [][NextValidate]_vars

---------------------------------------------------------------------------
(* The socket server: one POST /analyze from its arrival to the response.  *)

Response(status, error, body) == [status |-> status, error |-> error, deck |-> body]

ServeTexts == ShortTexts \cup {HeadingAndTwoBlocks, <<"a", "b", " ", Surrogate>>}
\* "options": {"embedding_dim": 16} and variations of it
SmallDim == [embedding_dim |-> JInt(MinEmbeddingDim)]
Ab == JStr(<<"a", "b">>)
\* bodies that are JSON: no object, no text, text and options of all kinds
ServePayloads ==
    <<JList(<< >>), JNull, JInt(5), Ab, JBool(TRUE), EmptyDict,
      JDict([text |-> JInt(5)]),
      JDict([text |-> Ab]),
      JDict([text |-> Ab, options |-> JList(<< >>)]),
      JDict([text |-> Ab, options |-> JList(<<JInt(1)>>)]),
      JDict([text |-> Ab, options |-> JInt(0)]),
      JDict([text |-> Ab, options |-> Ab]),
      JDict([text |-> Ab, options |-> JDict(SmallDim @@ [max_topics |-> JStr(<<"x">>)])]),
      JDict([text |-> Ab, options |-> JDict(SmallDim @@ [max_topics |-> JStr(<<"3">>)])]),
      JDict([text |-> Ab, options |-> JDict(SmallDim @@ [max_topics |-> JNull])]),
      JDict([text |-> Ab, options |-> JDict(SmallDim @@ [max_topics |-> JInt(0)])]),
      JDict([text |-> Ab, options |-> JDict(SmallDim @@ [topic_threshold |-> JInt(2)])]),
      JDict([text |-> Ab, options |-> JDict(SmallDim @@ [language |-> JList(<< >>)])]),
      JDict([text |-> Ab, options |-> JDict([embedding_dim |-> JBool(TRUE)])]),
      JDict([options |-> JDict(SmallDim)])>>

InitServe ==
    /\ impl = "l2c" /\ text = << >> /\ opt = AnalyzeOptions
    /\ run = 1 /\ first = NoOutcome
    /\ pc = "serve" /\ err = "none"
    /\ paragraphs = << >> /\ lang = "en" /\ keypoints = << >> /\ vectors = << >>
    /\ topics = << >> /\ centroids = << >> /\ next = 1
    /\ deck = NoDeck /\ validation = NoValidation
    /\ CliIdle /\ NoDocument /\ NoApi /\ NoPure
    /\ responses = << >>
    /\ \/ \E i \in DOMAIN ServePayloads :
             request = [length |-> "body", raw |-> "json", payload |-> ServePayloads[i]]
       \/ \E t \in ServeTexts :
             request = [length |-> "body", raw |-> "json",
                        payload |-> JDict([text |-> JStr(t), options |-> JDict(SmallDim)])]
       \/ \E r \in {<<"invalid", "json">>, <<"zero", "json">>, <<"body", "notjson">>,
                    <<"body", "notutf8">>} :
             request = [length |-> r[1], raw |-> r[2], payload |-> EmptyDict]

\* do_POST up to the call of analyze_text
ServeOpen ==
    /\ pc = "serve"
    /\ \E r \in {ServeParse(request)} :
          CASE r.outcome = "call" ->
                  text' = r.text /\ opt' = r.opt /\ pc' = "start" /\ UNCHANGED responses
            [] r.outcome = "raise" ->
                  pc' = "crashed" /\ UNCHANGED <<text, opt, responses>>
            [] OTHER ->
                  /\ responses' = Append(responses, Response(r.status, r.error, NoDeck))
                  /\ pc' = "answered" /\ UNCHANGED <<text, opt>>
    /\ UNCHANGED <<request, besideServe, impl, run, err, paragraphs, lang, keypoints,
                   vectors, topics, centroids, next, deck, validation, first>>

\* except PipelineError: 400; return self._send_json(200, deck)
ServeAnswer ==
    /\ pc \in {"failed", "returned"}
    /\ IF pc = "failed"
       THEN responses' = Append(responses, Response(400, err, NoDeck)) /\ pc' = "answered"
       ELSE IF Encodes(deck)
       THEN responses' = Append(responses, Response(200, "", deck)) /\ pc' = "answered"
       ELSE pc' = "crashed" /\ UNCHANGED responses
    /\ UNCHANGED <<request, besideServe, impl, text, opt, run, err, paragraphs, lang, keypoints,
                   vectors, topics, centroids, next, deck, validation, first>>

NextServe ==
    \/ ServeOpen
    \/ L2CAnalyze
    \/ L2CCluster
    \/ L2CReturn
    \/ ServeAnswer

SpecServe == InitServe /\ [][NextServe]_vars

---------------------------------------------------------------------------
(* The API service: POST /api/process requests handled at the same time,   *)
(* each by its own call of process() in a thread of the server; a step of  *)
(* the model is one call that process() makes, and write_text is taken as  *)
(* one step.                                                               *)

\* requests in flight at the same time
MaxCallers == 2
Callers == 1..MaxCallers

OneWord == <<"a", "b">>
\* a heading with its block, then a list item that is a stopword
HeadingAndItem ==
    <<"#", " ", "A", "b", "\n", "a", "b", " ", "c", "d", ".", " ", "a", "b", "\n", "\n",
      "-", " ", "b", "e">>
\* one character more than build_deck takes
TooLong == [i \in 1..(MAX_INPUT_CHARS + 1) |-> "a"]

TextOnly(t) == [text |-> JStr(t)]
\* the bodies of the requests: text missing, of the wrong type, empty, blank;
\* each option below and above its range; texts of one and of several topics,
\* lists of 8 and of 9 items in one topic
ApiBodies ==
    <<EmptyDict,
      JDict([topic_threshold |-> JInt(2)]),
      JDict([text |-> JInt(5)]),
      JDict([text |-> JNull]),
      JDict(TextOnly(<< >>)),
      JDict(TextOnly(<<" ", "\n">>)),
      JDict(TextOnly(OneWord)),
      JDict(TextOnly(<<"a">>)),
      JDict(TextOnly(OneWord) @@ [topic_threshold |-> JInt(2)]),
      JDict(TextOnly(OneWord) @@ [topic_threshold |-> JInt(0 - 1)]),
      JDict(TextOnly(OneWord) @@ [max_topics |-> JInt(0)]),
      JDict(TextOnly(OneWord) @@ [max_topics |-> JNull]),
      JDict(TextOnly(OneWord) @@ [max_bullets |-> JInt(0)]),
      JDict(TextOnly(OneWord) @@ [max_bullets |-> JInt(6)]),
      JDict(TextOnly(HeadingAndItem) @@ [debug |-> JBool(TRUE)]),
      JDict(TextOnly(HeadingAndItem) @@ [topic_threshold |-> JInt(0), max_bullets |-> JInt(1)]),
      JDict(TextOnly(LongText(BSplitAbove, 1)) @@ [max_topics |-> JInt(1)]),
      JDict(TextOnly(LongText(BSplitAbove + 1, 1)) @@ [max_topics |-> JInt(1)]),
      JDict(TextOnly(LongText(BSplitAbove + 1, 0)) @@ [topic_threshold |-> JInt(1)]),
      JDict(TextOnly(TooLong))>>

NoResponse == fastapi_json(0, ErrorResponse(<< >>))
NewCall(body) == [body |-> body, at |-> "received", deck |-> EmptyDeck,
                  response |-> NoResponse, seen |-> NoDeckFile]

InitApi ==
    /\ impl = "l2c" /\ text = << >> /\ opt = AnalyzeOptions
    /\ run = 1 /\ first = NoOutcome
    /\ pc = "api" /\ err = "none"
    /\ paragraphs = << >> /\ lang = "en" /\ keypoints = << >> /\ vectors = << >>
    /\ topics = << >> /\ centroids = << >> /\ next = 1
    /\ deck = NoDeck /\ validation = NoValidation
    /\ CliIdle /\ NoDocument /\ NoServer /\ NoPure
    /\ deckfile = NoDeckFile
    /\ \E ks \in [Callers -> DOMAIN ApiBodies] :
          calls = [i \in Callers |-> NewCall(ApiBodies[ks[i]])]

outsideApi == <<besideApi, impl, text, opt, run, pc, err, paragraphs, lang, keypoints,
                vectors, topics, centroids, next, deck, validation, first>>

Answered(call, response) == [call EXCEPT !.at = "done", !.response = response]

\* FastAPI validates the body: RequestValidationError, or process(req) is called
ApiReceive(i) ==
    /\ calls[i].at = "received"
    /\ \E errs \in {ProcessRequestErrors(calls[i].body)} :
          calls' = [calls EXCEPT ![i] =
                       IF errs # << >>
                       THEN Answered(@, request_validation_exception_handler(errs))
                       ELSE [@ EXCEPT !.at = "process"]]
    /\ UNCHANGED <<deckfile, outsideApi>>

\* lines 107-112 and 132-133: build_deck, and the HTTPException for its
\* ProcessingError
ApiBuild(i) ==
    /\ calls[i].at = "process"
    /\ \E req \in {ProcessRequest(calls[i].body)} :
       \E built \in {build_deck(req.text, req.topic_threshold, req.max_topics,
                                req.max_bullets)} :
          calls' = [calls EXCEPT ![i] =
                       IF built.raised
                       THEN Answered(@, http_exception_handler(HTTPException(400, built.error)))
                       ELSE [@ EXCEPT !.at = "write", !.deck = built.deck]]
    /\ UNCHANGED <<deckfile, outsideApi>>

\* line 113: write_deck_json writes the deck to deck.json
ApiWrite(i) ==
    /\ calls[i].at = "write"
    /\ deckfile' = [exists |-> TRUE, json |-> calls[i].deck]
    /\ calls' = [calls EXCEPT ![i].at = "respond"]
    /\ UNCHANGED outsideApi

\* lines 113 and 134-135: write_deck_json raises OSError, before it opened the
\* file or after it emptied it, and process() raises the HTTPException for it
ApiWriteFails(i) ==
    /\ calls[i].at = "write"
    /\ deckfile' \in {deckfile, [exists |-> TRUE, json |-> EmptyDeck]}
    /\ calls' = [calls EXCEPT ![i] =
                    Answered(@, http_exception_handler(
                                    HTTPException(500, InternalError \o DiskFull)))]
    /\ UNCHANGED outsideApi

\* lines 114-131: the response of process(); seen is deck.json at that moment
ApiRespond(i) ==
    /\ calls[i].at = "respond"
    /\ calls' = [calls EXCEPT ![i] =
                    [Answered(@, fastapi_json(200, ProcessResponse(ProcessRequest(@.body),
                                                                    @.deck)))
                        EXCEPT !.seen = deckfile]]
    /\ UNCHANGED <<deckfile, outsideApi>>

NextApi ==
    \E i \in Callers :
        \/ ApiReceive(i)
        \/ ApiBuild(i)
        \/ ApiWrite(i)
        \/ ApiWriteFails(i)
        \/ ApiRespond(i)

SpecApi == InitApi /\ [][NextApi]_vars

---------------------------------------------------------------------------
(* The best-topic scans on their own: one list of similarities, given to   *)
(* the scan of each clustering function. Similarities are counted here in  *)
(* units of 1e-13 from a common value, so that the 1e-12 of the scans of   *)
(* cluster_topics and cluster_by_threshold is a number of the model.       *)

\* 1e-12 in units of 1e-13
FineEpsilon == 10
\* similarities at most FineEpsilon apart, and one further away
NearSimilarities == {0, 1, FineEpsilon, FineEpsilon + 1, 5 * FineEpsilon}
\* topics open at the step
MaxOpen == 3
\* how far the -1.0 that cluster_by_threshold starts from lies below the
\* common value: further than any similarity of the model
FarBelow == 100000

\* learn2cards/pipeline.py, _cluster_threshold, lines 462-464
L2CBest(sims) == FirstArgMax(sims)
\* agent_a/cluster.py, cluster_topics, lines 62-70
ABest(sims) == BestScan(sims, 2, <<1, sims[1]>>, FineEpsilon)[1]
\* backend/main.py, cluster_by_threshold, lines 353-360
cluster_best(sims) == BestScan(sims, 1, <<1, 0 - FarBelow>>, FineEpsilon)[1]

InitScan ==
    /\ impl = "l2c" /\ text = << >> /\ opt = AnalyzeOptions
    /\ run = 1 /\ first = NoOutcome
    /\ pc = "scan" /\ err = "none"
    /\ paragraphs = << >> /\ lang = "en" /\ keypoints = << >> /\ vectors = << >>
    /\ topics = << >> /\ centroids = << >> /\ next = 1
    /\ deck = NoDeck /\ validation = NoValidation
    /\ CliIdle /\ NoDocument /\ NoServer /\ NoApi
    /\ similarities \in UNION {[1..n -> NearSimilarities] : n \in 1..MaxOpen}
    /\ choice = NoChoice
    /\ seg = NoSegment

outsideScan == <<besidePure, seg, impl, text, opt, run, pc, err, paragraphs, lang, keypoints,
                 vectors, topics, centroids, next, deck, validation, first>>

ScanL2C ==
    /\ pc = "scan" /\ choice.l2c = 0
    /\ choice' = [choice EXCEPT !.l2c = L2CBest(similarities)]
    /\ UNCHANGED <<similarities, outsideScan>>

ScanAgentA ==
    /\ pc = "scan" /\ choice.agent_a = 0
    /\ choice' = [choice EXCEPT !.agent_a = ABest(similarities)]
    /\ UNCHANGED <<similarities, outsideScan>>

ScanMain ==
    /\ pc = "scan" /\ choice.main = 0
    /\ choice' = [choice EXCEPT !.main = cluster_best(similarities)]
    /\ UNCHANGED <<similarities, outsideScan>>

NextScan == ScanL2C \/ ScanAgentA \/ ScanMain

SpecScan == InitScan /\ [][NextScan]_vars

---------------------------------------------------------------------------
(* split_paragraphs of backend/agent_a.py, one iteration of its loop at a  *)
(* time                                                                    *)

\* lines of a text
MaxSegLines == 4
\* the lines the texts are made of: a fence, an indented fence, a list item,
\* an item without text, headings of three levels, a heading without title,
\* a blank line, a body line, an indented line
SegLineKinds ==
    { Fence, <<" ", " ">> \o Fence, <<"-", " ", "a">>, <<"-", " ", " ">>,
      <<"#", " ", "H">>, <<"#", "#", " ", "G">>, <<"#", "#", "#", " ", "K">>,
      <<"#", " ", " ">>, << >>, <<"a", "b">>, <<" ", " ", "c", "d">> }
SegTexts ==
    {Join(ls, <<"\n">>) : ls \in UNION {[1..n -> SegLineKinds] : n \in 1..MaxSegLines}}

InitSplit ==
    /\ impl = "agent_a" /\ text = << >> /\ opt = PipelineOptions
    /\ run = 1 /\ first = NoOutcome
    /\ pc = "split" /\ err = "none"
    /\ paragraphs = << >> /\ lang = "en" /\ keypoints = << >> /\ vectors = << >>
    /\ topics = << >> /\ centroids = << >> /\ next = 1
    /\ deck = NoDeck /\ validation = NoValidation
    /\ CliIdle /\ NoDocument /\ NoServer /\ NoApi /\ NoScan
    /\ \E t \in SegTexts : seg = FStart(t)

outsideSplit == <<besidePure, similarities, choice, impl, text, opt, run, pc, err,
                  paragraphs, lang, keypoints, vectors, topics, centroids, next, deck,
                  validation, first>>

\* the line the loop is at
SegAt == pc = "split" /\ ~seg.done /\ seg.i <= Len(seg.lines)
SegOutsideCode == SegAt /\ ~FenceMatches(seg.lines[seg.i]) /\ ~seg.in_code

SegFence ==
    /\ SegAt /\ FenceMatches(seg.lines[seg.i])
    /\ seg' = FFence(seg, seg.lines[seg.i])
    /\ UNCHANGED outsideSplit

SegCode ==
    /\ SegAt /\ ~FenceMatches(seg.lines[seg.i]) /\ seg.in_code
    /\ seg' = FBuffer(seg, seg.lines[seg.i])
    /\ UNCHANGED outsideSplit

SegHeading ==
    /\ SegOutsideCode /\ _is_heading(seg.lines[seg.i]).matched
    /\ seg' = FHeading(seg, _is_heading(seg.lines[seg.i]))
    /\ UNCHANGED outsideSplit

SegBlank ==
    /\ SegOutsideCode /\ ~_is_heading(seg.lines[seg.i]).matched
    /\ Strip(seg.lines[seg.i]) = << >>
    /\ seg' = [FFlushBuf(seg) EXCEPT !.i = seg.i + 1]
    /\ UNCHANGED outsideSplit

SegListItem ==
    /\ SegOutsideCode /\ ~_is_heading(seg.lines[seg.i]).matched
    /\ Strip(seg.lines[seg.i]) # << >>
    /\ _is_list_item(seg.lines[seg.i]).matched
    /\ seg' = FListItem(seg, _is_list_item(seg.lines[seg.i]))
    /\ UNCHANGED outsideSplit

SegBody ==
    /\ SegOutsideCode /\ ~_is_heading(seg.lines[seg.i]).matched
    /\ Strip(seg.lines[seg.i]) # << >>
    /\ ~_is_list_item(seg.lines[seg.i]).matched
    /\ seg' = FBuffer(seg, seg.lines[seg.i])
    /\ UNCHANGED outsideSplit

SegFinish ==
    /\ pc = "split" /\ ~seg.done /\ seg.i > Len(seg.lines)
    /\ seg' = FFinish(seg)
    /\ UNCHANGED outsideSplit

NextSplit ==
    SegFence \/ SegCode \/ SegHeading \/ SegBlank \/ SegListItem \/ SegBody \/ SegFinish

SpecSplit == InitSplit /\ [][NextSplit]_vars

---------------------------------------------------------------------------
(* Properties                                                              *)

\* the call has returned a deck
Returned == pc \in {"returned", "validated"}

\* the decks agree on everything but meta
SameButMeta(d, e) ==
    /\ d.paragraphs = e.paragraphs
    /\ d.keypoints = e.keypoints
    /\ d.topics = e.topics
    /\ d.cards = e.cards
    /\ d.stats = e.stats

C2_RoundTrip ==
    (impl = "l2c" /\ pc = "validated") => (validation.ok /\ validation.errors = << >>)

\* a returned deck that validate_deck rejects for a keypoint without keywords
C2_Rejected ==
    /\ impl = "l2c" /\ pc = "validated" /\ ~validation.ok
    /\ \E i \in DOMAIN validation.errors :
          validation.errors[i].rule = "keypoints.keywords.length"

\* the memberIds of the topics ts split the ids: no topic is empty, no id is
\* in two topics or twice in one, and every id is in a topic
Partition(ts, ids) ==
    /\ \A i \in DOMAIN ts : ts[i].memberIds # << >>
    /\ \A i \in DOMAIN ts :
          Cardinality(Range(ts[i].memberIds)) = Len(ts[i].memberIds)
    /\ \A i, j \in DOMAIN ts :
          i # j => Range(ts[i].memberIds) \cap Range(ts[j].memberIds) = {}
    /\ UNION {Range(ts[i].memberIds) : i \in DOMAIN ts} = ids

\* C3: after each step of the clustering pass the topics partition the
\* paragraphs processed so far, and in every returned deck (of analyze_text and
\* of run_agent_a) the topics partition all paragraph ids and there is at
\* least one topic.
C3_TopicPartition ==
    /\ pc = "cluster" =>
          Partition(topics, {paragraphs[i].id : i \in 1..(next - 1)})
    /\ Returned =>
          /\ Partition(deck.topics, {deck.paragraphs[i].id : i \in DOMAIN deck.paragraphs})
          /\ Len(deck.topics) >= 1

\* cluster_topics in the middle of its pass: several topics, one of them joined
C3_Witness ==
    /\ impl = "agent_a" /\ pc = "cluster" /\ next > 3 /\ next <= Len(paragraphs)
    /\ Len(topics) >= 2
    /\ \E i \in DOMAIN topics : Len(topics[i].memberIds) >= 2

\* idx of the paragraph of deck d with that id, -1 when there is none
ParagraphIdx(d, pid) ==
    LET hits == {i \in DOMAIN d.paragraphs : d.paragraphs[i].id = pid}
    IN  IF hits = {} THEN -1 ELSE d.paragraphs[CHOOSE i \in hits : TRUE].idx

\* the smallest idx of the members of topic t of deck d
MinMemberIdx(d, t) ==
    CHOOSE m \in {ParagraphIdx(d, t.memberIds[k]) : k \in DOMAIN t.memberIds} :
        \A k \in DOMAIN t.memberIds : m <= ParagraphIdx(d, t.memberIds[k])

\* C4: in every returned deck the smallest member idx does not decrease along
\* the topics, and inside each topic memberIds ascends by paragraph idx.
C4_TopicOrdering ==
    Returned =>
        /\ \A i \in 1..(Len(deck.topics) - 1) :
              MinMemberIdx(deck, deck.topics[i]) <= MinMemberIdx(deck, deck.topics[i + 1])
        /\ \A i \in DOMAIN deck.topics :
              \A k \in 1..(Len(deck.topics[i].memberIds) - 1) :
                  ParagraphIdx(deck, deck.topics[i].memberIds[k])
                      <= ParagraphIdx(deck, deck.topics[i].memberIds[k + 1])

\* a deck of analyze_text with three topics, the first of which took a later
\* paragraph than the second topic's first
C4_Witness ==
    /\ impl = "l2c" /\ pc = "returned" /\ Len(deck.topics) >= 3
    /\ \E k \in DOMAIN deck.topics[1].memberIds :
          ParagraphIdx(deck, deck.topics[1].memberIds[k])
              > MinMemberIdx(deck, deck.topics[2])

\* number of cards of deck d that refer to topic t
CardsOf(d, t) == Cardinality({i \in DOMAIN d.cards : d.cards[i].topicId = t.id})

\* C5: in every returned deck a topic with more than 8 members has exactly 2
\* cards under its final id, any other topic exactly 1.
C5_CardCount ==
    Returned =>
        \A i \in DOMAIN deck.topics :
            CardsOf(deck, deck.topics[i]) =
                IF Len(deck.topics[i].memberIds) > 8 THEN 2 ELSE 1

\* a deck with a topic of exactly 9 members and its two cards
C5_Witness ==
    /\ Returned
    /\ \E i \in DOMAIN deck.topics :
          Len(deck.topics[i].memberIds) = 9 /\ CardsOf(deck, deck.topics[i]) = 2

\* C6: every card of every returned deck has between 1 and 5 bullets, each a
\* non-empty string, no two of them equal.
C6_BulletBound ==
    Returned =>
        \A i \in DOMAIN deck.cards :
            LET b == deck.cards[i].bullets
            IN  /\ 1 <= Len(b) /\ Len(b) <= 5
                /\ \A k \in DOMAIN b : b[k] # << >>
                /\ \A k, m \in DOMAIN b : k # m => b[k] # b[m]

\* a deck of analyze_text with a card that carries the most bullets allowed
C6_Witness ==
    /\ impl = "l2c" /\ Returned
    /\ \E i \in DOMAIN deck.cards : Len(deck.cards[i].bullets) = 5

\* C7: in every returned deck the paragraph at position i (from 0) has idx i
\* and id "p" followed by i + 1.
C7_ParagraphNumbering ==
    Returned =>
        \A i \in DOMAIN deck.paragraphs :
            /\ deck.paragraphs[i].idx = i - 1
            /\ deck.paragraphs[i].id = <<"p">> \o Decimal(i)

\* a deck of run_agent_a whose first paragraph is p0
C7_FromZero ==
    /\ impl = "agent_a" /\ pc = "returned"
    /\ deck.paragraphs[1].id = <<"p", "0">>

\* C8: in every deck analyze_text returns, every keypoint has 1 to 5
\* keywords, each non-empty, no two equal.
C8_KeywordsNeverEmpty ==
    (impl = "l2c" /\ Returned) =>
        \A i \in DOMAIN deck.keypoints :
            LET kw == deck.keypoints[i].keywords
            IN  /\ 1 <= Len(kw) /\ Len(kw) <= 5
                /\ \A k \in DOMAIN kw : kw[k] # << >>
                /\ \A k, m \in DOMAIN kw : k # m => kw[k] # kw[m]

\* a deck of analyze_text with a keypoint that has no keyword at all
C8_NoKeyword ==
    /\ impl = "l2c" /\ Returned
    /\ \E i \in DOMAIN deck.keypoints : deck.keypoints[i].keywords = << >>

\* similarity of vector v and centroid c, as the running implementation takes it
Similarity(v, c) == IF impl = "l2c" THEN _dot(v, c) ELSE _cosine(c, v)

\* the threshold and the cap of the call
Threshold == IF impl = "l2c" THEN opt.topic_threshold ELSE opt.topicThreshold
Cap == IF impl = "l2c" THEN opt.max_topics ELSE opt.maxTopics

\* the largest similarity of the paragraph at position next to an open topic
BestSimilarity ==
    LET sims == {Similarity(vectors[next], centroids[j]) : j \in DOMAIN centroids}
    IN  CHOOSE s \in sims : \A x \in sims : x <= s

\* this step is an iteration of the clustering loop that met open topics
ClusterIteration ==
    /\ pc = "cluster" /\ next <= Len(paragraphs) /\ next' = next + 1
    /\ topics # << >>

\* this step appended the current paragraph to a topic of largest similarity
\* and left every other topic as it was
JoinedBest ==
    /\ Len(topics') = Len(topics)
    /\ \E j \in DOMAIN topics :
          /\ Similarity(vectors[next], centroids[j]) = BestSimilarity
          /\ topics'[j].memberIds = Append(topics[j].memberIds, paragraphs[next].id)
          /\ \A k \in DOMAIN topics : k # j => topics'[k] = topics[k]

C11_SizeCeiling ==
    (impl = "l2c" /\ pc # "start" /\ _validate_options(opt) = "ok"
        /\ Len(text) > opt.max_chars)
    => (pc = "failed" /\ err = "too_long")

\* a text over the ceiling by its leading newline only, and a deck returned
C11_NewlinesOverCeiling ==
    /\ impl = "l2c" /\ Returned
    /\ Len(text) > opt.max_chars
    /\ text[1] = "\n"
    /\ Len(L2CNormalize(text)) <= opt.max_chars
    /\ Len(deck.paragraphs) >= 1

\* C12: when cmd_generate has written a deck, every Markdown heading line of
\* the file is a paragraph of its own whose text is the heading title; the
\* file of one heading and two body blocks ends with exit status 0, 3
\* paragraphs and at least 1 topic
C12_HeadingsAreParagraphs ==
    (pc = "exited" /\ infile = "ok" /\ (force \/ outfile # OldFile)
        /\ _validate_options(opt) = "ok")
    => /\ exitcode = ExitOk =>
            \A line \in Range(SplitLines(L2CNormalize(text))) :
                MdHeadingMatches(line) =>
                    \E i \in DOMAIN outfile.json.paragraphs :
                        outfile.json.paragraphs[i].text = Strip(MdHeadingTitle(line))
       /\ text = HeadingAndTwoBlocks =>
            /\ exitcode = ExitOk
            /\ outfile.json.stats.totalParagraphs = 3
            /\ Len(outfile.json.topics) >= 1

\* the file of one heading and two body blocks gave a deck of 2 paragraphs,
\* none of them the heading
C12_HeadingDropped ==
    /\ pc = "exited" /\ exitcode = ExitOk
    /\ text = HeadingAndTwoBlocks
    /\ outfile.json.stats.totalParagraphs = 2
    /\ Len(outfile.json.topics) >= 1
    /\ \A i \in DOMAIN outfile.json.paragraphs :
          /\ outfile.json.paragraphs[i].text # <<"A", "b">>
          /\ outfile.json.paragraphs[i].sectionPath = << <<"A", "b">> >>

\* C13: called on any document that json.loads can give, neither validate_deck
\* raises an exception: each returns its list of issues.
C13_ValidatorsTotal == pc = "judged" => ~verdict.raised

\* C13: a deck whose first topic has an array as its id, on which
\* learn2cards.validate.validate_deck raised
C13_ArrayIdRaises ==
    /\ pc = "judged" /\ verdict.by = "learn2cards" /\ verdict.raised
    /\ edit.op = "itemkey" /\ edit.f = "topics" /\ edit.i = 1 /\ edit.k = "id"
    /\ IsList(doc.v.topics.v[1].v.id)

\* C14: in a deck that learn2cards.validate.validate_deck accepts, stats.totalCards
\* replaced by any other integer, negative ones included, gives exactly one error,
\* and that error names stats.totalCards.
C14_StatsTampering ==
    (/\ pc = "judged" /\ verdict.by = "learn2cards" /\ validate_deck(deck).ok
     /\ edit.op = "key" /\ edit.f = "stats" /\ edit.k = "totalCards"
     /\ Alien[edit.a].kind = "int" /\ Alien[edit.a].v # Len(deck.cards))
    => /\ ~verdict.raised
       /\ Len(verdict.errors) = 1
       /\ verdict.errors[1].rule \in {"stats.totalCards", "stats.totalCards.int"}

\* C14: stats.totalCards replaced by -1, and two errors that name stats.totalCards
C14_NegativeTwice ==
    /\ pc = "judged" /\ verdict.by = "learn2cards" /\ validate_deck(deck).ok
    /\ edit.op = "key" /\ edit.f = "stats" /\ edit.k = "totalCards"
    /\ Alien[edit.a].kind = "int" /\ IntOf(doc.v.stats.v.totalCards) = 0 - 1
    /\ verdict.errors = <<Issue("stats.totalCards.int", -1), Issue("stats.totalCards", -1)>>

\* the number of keypoints of the document that name the paragraph
KeypointsOf(pid) ==
    Cardinality({i \in DOMAIN doc.v.keypoints.v : doc.v.keypoints.v[i].v.paragraphId = pid})
\* the keypoints of the document were edited so that they still name paragraphs of
\* the document and stats.totalKeypoints is their number
KeypointsMoved ==
    /\ edit.f = "keypoints"
    /\ \/ edit.op = "repeat"
       \/ /\ edit.op = "itemkey" /\ edit.k = "paragraphId"
          /\ \E i \in DOMAIN doc.v.paragraphs.v :
                Alien[edit.a].kind = "str" /\ doc.v.paragraphs.v[i].v.id.v = Alien[edit.a].v
    /\ \E i \in DOMAIN doc.v.paragraphs.v : KeypointsOf(doc.v.paragraphs.v[i].v.id) # 1

\* C15: both validate_deck report an issue when the keypoints are not exactly one
\* per paragraph, even if stats.totalKeypoints is right and every keypoint names
\* an existing paragraph.
C15_KeypointCoverage ==
    (pc = "judged" /\ KeypointsMoved) => (~verdict.raised /\ verdict.errors # << >>)

\* C15: a paragraph without any keypoint and another with two, in a document that
\* learn2cards.validate.validate_deck accepts
C15_UncoveredAccepted ==
    /\ pc = "judged" /\ verdict.by = "learn2cards" /\ KeypointsMoved
    /\ \E i \in DOMAIN doc.v.paragraphs.v : KeypointsOf(doc.v.paragraphs.v[i].v.id) = 0
    /\ ~verdict.raised /\ verdict.errors = << >>

\* the variables of the call of analyze_text
pipelineVars == <<paragraphs, lang, keypoints, vectors, topics, centroids, next, deck, validation>>

C17_AlwaysAnswers ==
    /\ pc # "crashed"
    /\ Len(responses) = (IF pc = "answered" THEN 1 ELSE 0)
    /\ \A i \in DOMAIN responses :
          /\ responses[i].status \in {200, 400, 500}
          /\ IF responses[i].status = 200
             THEN responses[i].deck = deck /\ deck # NoDeck
             ELSE responses[i].error # "" /\ responses[i].error # "none"

\* C17: a body that is a JSON array, the handler left by an exception, nothing sent
C17_ArrayBodyDropped ==
    /\ pc = "crashed" /\ responses = << >>
    /\ request.length = "body" /\ request.raw = "json" /\ IsList(request.payload)

\* the cases C18 names, read off the body of a request
MissingOrBlankText(body) ==
    \/ ~Has(body, "text")
    \/ IsStr(body.v["text"]) /\ Strip(body.v["text"].v) = << >>
Outside(body, field, lo, hi) ==
    /\ Has(body, field) /\ body.v[field].kind = "int"
    /\ (body.v[field].v < lo \/ body.v[field].v > hi)
OptionOutOfRange(body) ==
    \/ Outside(body, "topic_threshold", 0, 1)
    \/ Has(body, "max_topics") /\ body.v["max_topics"].kind = "int"
       /\ body.v["max_topics"].v < 1
    \/ Outside(body, "max_bullets", 1, 5)
\* the body {ok: false, error: <non-empty string>} under the given status
ErrorEnvelope(response, status) ==
    /\ response.status = status
    /\ DOMAIN response.body = {"ok", "error"}
    /\ response.body.ok = FALSE
    /\ response.body.error # << >>

\* C18: a request whose text is missing, empty or blank, or one of whose
\* options is out of range, never reaches build_deck and is answered with 400
\* and {ok: false, error}; and whenever a request is answered, the answer given
\* at validation or for a ProcessingError of build_deck is 400, the answer for
\* any other exception is 500, both in that shape
C18_ErrorEnvelope ==
    /\ [](\A i \in DOMAIN calls :
             MissingOrBlankText(calls[i].body) \/ OptionOutOfRange(calls[i].body)
             => /\ calls[i].at \in {"received", "done"}
                /\ calls[i].at = "done" => ErrorEnvelope(calls[i].response, 400))
    /\ [][\A i \in DOMAIN calls :
             calls[i].at # "done" /\ calls'[i].at = "done"
             => CASE calls[i].at \in {"received", "process"} ->
                        ErrorEnvelope(calls'[i].response, 400)
                  [] calls[i].at = "write" -> ErrorEnvelope(calls'[i].response, 500)
                  [] OTHER -> calls'[i].response.status = 200]_vars

\* a blank text answered with 400 beside a failed write answered with 500
C18_BothStatuses ==
    \E i, j \in DOMAIN calls :
        /\ calls[i].at = "done" /\ calls[j].at = "done"
        /\ IsStr(Get(calls[i].body, "text")) /\ Get(calls[i].body, "text").v = <<" ", "\n">>
        /\ calls[i].response.status = 400
        /\ calls[j].response.status = 500
        /\ calls[j].response.body.error = InternalError \o DiskFull

\* deck.json as a request handled alone leaves it when it returns: its own deck
WrittenAlone(call) == [exists |-> TRUE, json |-> call.deck]

\* C19: whatever the interleaving, a request of POST /api/process answered
\* with 200 returns the response of a request handled alone, and deck.json,
\* the file its outputPath names, holds at that moment the deck of that
\* response, as it does for a request handled alone
C19_Isolated ==
    \A i \in DOMAIN calls :
        calls[i].at = "done" /\ calls[i].response.status = 200
        => /\ calls[i].response.body.deck = calls[i].deck
           /\ calls[i].seen = WrittenAlone(calls[i])

\* two requests with different decks both answered with 200, one of them
\* returning while deck.json holds the deck of the other
C19_SeesOtherDeck ==
    \E i, j \in DOMAIN calls :
        /\ i # j
        /\ calls[i].at = "done" /\ calls[i].response.status = 200
        /\ calls[j].at = "done" /\ calls[j].response.status = 200
        /\ calls[i].deck # calls[j].deck
        /\ calls[i].seen = WrittenAlone(calls[j])
        /\ calls[i].response.body.outputPath = calls[j].response.body.outputPath

\* ceil(n / 2)
HalfUp(n) == (n + 1) \div 2
\* the cards of a deck that belong to a topic, in the order of the deck
CardsOfTopic(d, t) == SelectSeq(d.cards, LAMBDA c : c.topicId = t.id)
\* the bullets build_deck gives a card built from these members of topic t
BulletsBuiltFrom(d, t, part, max_bullets) ==
    TopicCards(d.paragraphs, [t EXCEPT !.memberIds = part], 1, max_bullets)[1].bullets
\* the two cards of topic t are built from memberIds[:cut] and memberIds[cut:]
SplitAt(d, t, cut, max_bullets) ==
    LET Both(cs) ==
            /\ Len(cs) = 2
            /\ cs[1].bullets = BulletsBuiltFrom(d, t, Prefix(t.memberIds, cut), max_bullets)
            /\ cs[2].bullets = BulletsBuiltFrom(d, t, Drop(t.memberIds, cut), max_bullets)
    IN  Both(CardsOfTopic(d, t))
\* the requests whose deck build_deck has returned
HasDeck(call) == call.at \in {"write", "respond", "done"} /\ call.deck # EmptyDeck

\* C20: in every deck of build_deck, a topic with n > 8 members has two
\* cards, the first built from the first ceil(n/2) memberIds and the second
\* from the remaining floor(n/2)
C20_HalvesRoundUp ==
    \A i \in DOMAIN calls :
        HasDeck(calls[i]) =>
            \A k \in DOMAIN calls[i].deck.topics :
                Len(calls[i].deck.topics[k].memberIds) > BSplitAbove
                => SplitAt(calls[i].deck, calls[i].deck.topics[k],
                           HalfUp(Len(calls[i].deck.topics[k].memberIds)),
                           ProcessRequest(calls[i].body).max_bullets)

\* a topic of 9 members whose cards are built from its first 4 and its last 5
\* memberIds, with 4 and 5 bullets
C20_NineSplitFourFive ==
    \E i \in DOMAIN calls :
        /\ HasDeck(calls[i]) /\ calls[i].at = "done"
        /\ \E k \in DOMAIN calls[i].deck.topics :
              /\ Len(calls[i].deck.topics[k].memberIds) = 9
              /\ SplitAt(calls[i].deck, calls[i].deck.topics[k], 4,
                         ProcessRequest(calls[i].body).max_bullets)
              /\ Len(CardsOfTopic(calls[i].deck, calls[i].deck.topics[k])[1].bullets) = 4
              /\ Len(CardsOfTopic(calls[i].deck, calls[i].deck.topics[k])[2].bullets) = 5

\* the options of the call that bound the bullets of a card
MaxBulletsOf(o) == IF impl = "l2c" THEN o.max_bullets_per_card ELSE o.maxBulletsPerCard
TargetBulletsOf(o) ==
    IF impl = "l2c" THEN o.target_bullets_per_card ELSE o.targetBulletsPerCard
\* the keypoint sentence of a paragraph of the deck, empty when it has none
SentenceOf(d, pid) ==
    IF \E i \in DOMAIN d.keypoints : d.keypoints[i].paragraphId = pid
    THEN Strip(d.keypoints[CHOOSE i \in DOMAIN d.keypoints :
                              d.keypoints[i].paragraphId = pid].sentence)
    ELSE << >>
\* the distinct non-empty keypoint sentences of these members, in member order
DistinctSentences(d, mids) ==
    Unique(SelectSeq([k \in DOMAIN mids |-> SentenceOf(d, mids[k])], LAMBDA s : s # << >>))
\* the only card of topic t has the first min(k, cap) of the k distinct sentences
BulletsUpTo(d, t, cap) ==
    LET Taken(cs, found) ==
            cs[1].bullets = Prefix(found, Min2(Len(found), cap))
    IN  Taken(CardsOfTopic(d, t), DistinctSentences(d, t.memberIds))
\* the topics of the deck with one card and at least one keypoint sentence
OneCardTopics(d) ==
    {i \in DOMAIN d.topics :
        /\ Len(CardsOfTopic(d, d.topics[i])) = 1
        /\ DistinctSentences(d, d.topics[i].memberIds) # << >>}

\* C21: in every returned deck, the card of a topic whose members have k >= 1
\* distinct non-empty keypoint sentences has exactly the first
\* min(k, maxBulletsPerCard) of them as its bullets
C21_BulletsUpToMax ==
    Returned =>
        \A i \in OneCardTopics(deck) : BulletsUpTo(deck, deck.topics[i], MaxBulletsOf(opt))

\* what the code does: the cut is at the smaller of target and max
C21_BulletsUpToTarget ==
    Returned =>
        \A i \in OneCardTopics(deck) :
            BulletsUpTo(deck, deck.topics[i],
                        Max2(1, Min2(TargetBulletsOf(opt), MaxBulletsOf(opt))))

\* the defaults max = 5 and target = 4, a topic with 5 or more distinct
\* sentences, and its card with the first 4 of them
C21_FiveSentencesFourBullets ==
    /\ Returned
    /\ MaxBulletsOf(opt) = 5 /\ TargetBulletsOf(opt) = 4
    /\ \E i \in OneCardTopics(deck) :
          /\ Len(DistinctSentences(deck, deck.topics[i].memberIds)) >= 5
          /\ Len(CardsOfTopic(deck, deck.topics[i])[1].bullets) = 4
          /\ BulletsUpTo(deck, deck.topics[i], 4)

\* b is the earliest of the topics of maximal similarity
EarliestOfBest(sims, b) ==
    /\ \A j \in DOMAIN sims : sims[j] <= sims[b]
    /\ \A j \in 1..(b - 1) : sims[j] < sims[b]

\* C22: the topic each of the three scans picks has a similarity that no
\* open topic exceeds, and no earlier topic has that similarity
C22_BestTopic ==
    /\ choice.l2c # 0 => EarliestOfBest(similarities, choice.l2c)
    /\ choice.agent_a # 0 => EarliestOfBest(similarities, choice.agent_a)
    /\ choice.main # 0 => EarliestOfBest(similarities, choice.main)

\* what the scans do: _cluster_threshold picks the earliest of the maximal
\* topics; the other two pick a topic that no topic exceeds by more than 1e-12
C22_BestWithinEpsilon ==
    /\ choice.l2c # 0 => EarliestOfBest(similarities, choice.l2c)
    /\ \A b \in {choice.agent_a, choice.main} \ {0} :
          \A j \in DOMAIN similarities : similarities[j] <= similarities[b] + FineEpsilon

\* two topics, the second more similar by less than 1e-12: cluster_topics and
\* cluster_by_threshold picked the first, _cluster_threshold the second
C22_NearTie ==
    /\ Len(similarities) = 2
    /\ similarities[2] > similarities[1]
    /\ similarities[2] <= similarities[1] + FineEpsilon
    /\ choice.agent_a = 1 /\ choice.main = 1 /\ choice.l2c = 2

\* the fence lines of a text, and its code blocks <<o, c>>: the fence lines
\* in odd position open a block, the next fence line closes it
FenceLines(lines) == {i \in DOMAIN lines : FenceMatches(lines[i])}
FenceBlocks(lines) ==
    {b \in FenceLines(lines) \X FenceLines(lines) :
        /\ b[1] < b[2]
        /\ Cardinality({i \in FenceLines(lines) : i <= b[1]}) % 2 = 1
        /\ \A i \in FenceLines(lines) : ~(b[1] < i /\ i < b[2])}
\* the lines o..c lie together in one paragraph that is no heading, as they
\* are or each of them stripped
OneParagraph(st, o, c) ==
    \E k \in DOMAIN st.paragraphs :
        /\ st.paragraphs[k].headingLevel = 0
        /\ \/ Contains(st.paragraphs[k].text, Strip(Join(SubSeq(st.lines, o, c), <<"\n">>)))
           \/ Contains(st.paragraphs[k].text,
                       Join([j \in 1..(c - o + 1) |-> Strip(st.lines[o + j - 1])], <<"\n">>))

\* C23: when split_paragraphs has returned, every code block of the text,
\* from its opening fence line to its closing fence line, lies in one
\* paragraph, so that no line inside it is a heading, a list item or a
\* paragraph boundary
C23_FenceAtomic ==
    (pc = "split" /\ seg.done) =>
        \A b \in FenceBlocks(seg.lines) : OneParagraph(seg, b[1], b[2])

\* a code block opened by an indented fence line right after a list item:
\* the fence line went into the item's paragraph, and the heading line inside
\* the block, the only one of the text, became a heading paragraph
C23_HeadingInsideFence ==
    /\ pc = "split" /\ seg.done
    /\ \E b \in FenceBlocks(seg.lines) :
          /\ b[1] > 1 /\ _is_list_item(seg.lines[b[1] - 1]).matched
          /\ \A j \in DOMAIN seg.lines :
                _is_heading(seg.lines[j]).matched => b[1] < j /\ j < b[2]
          /\ \E k \in DOMAIN seg.paragraphs : seg.paragraphs[k].headingLevel > 0
          /\ \E k \in DOMAIN seg.paragraphs :
                seg.paragraphs[k].text =
                    Join(<<_is_list_item(seg.lines[b[1] - 1]).content, Fence>>, <<"\n">>)

\* the headings still open after the heading paragraphs among ps[1..k], as
\* <<level, title>> pairs outermost first: a heading closes every earlier
\* heading of its own or a deeper level
RECURSIVE OpenHeadings(_, _)
OpenHeadings(ps, k) ==
    IF k = 0 THEN << >>
    ELSE IF ps[k].headingLevel > 0
         THEN Append(PopToParent(OpenHeadings(ps, k - 1), ps[k].headingLevel),
                     <<ps[k].headingLevel, ps[k].text>>)
         ELSE OpenHeadings(ps, k - 1)
\* path picks titles out of stack, in the order of stack
RECURSIVE TitlesAmong(_, _)
TitlesAmong(path, stack) ==
    IF path = << >> THEN TRUE
    ELSE IF stack = << >> THEN FALSE
    ELSE IF path[1] = stack[1][2] THEN TitlesAmong(Tail(path), Tail(stack))
    ELSE TitlesAmong(path, Tail(stack))

\* C24: when split_paragraphs has returned, the sectionPath of every
\* paragraph holds only titles of headings that are still open at that
\* paragraph, outermost first, so that the levels strictly increase along it
\* and a heading of level L has no earlier heading of level >= L in its path
C24_TrueAncestors ==
    (pc = "split" /\ seg.done) =>
        \A k \in DOMAIN seg.paragraphs :
            TitlesAmong(seg.paragraphs[k].sectionPath, OpenHeadings(seg.paragraphs, k))

\* a level-2 heading after a level-3 heading, with nothing shallower before:
\* the level-2 heading's sectionPath keeps the level-3 title in front of its own
C24_DeeperHeadingFirst ==
    /\ pc = "split" /\ seg.done
    /\ \E j, k \in DOMAIN seg.paragraphs :
          /\ j < k
          /\ seg.paragraphs[j].headingLevel = 3
          /\ seg.paragraphs[k].headingLevel = 2
          /\ \A i \in 1..(k - 1) : seg.paragraphs[i].headingLevel \in {0, 3}
          /\ seg.paragraphs[k].sectionPath =
                <<seg.paragraphs[j].text, seg.paragraphs[k].text>>

\* C29: when split_paragraphs has returned, every paragraph, heading or not,
\* has a text that is not empty after trimming, and every title in a
\* sectionPath is not empty
C29_NoEmptyText ==
    (pc = "split" /\ seg.done) =>
        \A k \in DOMAIN seg.paragraphs :
            /\ Strip(seg.paragraphs[k].text) # << >>
            /\ \A i \in DOMAIN seg.paragraphs[k].sectionPath :
                  seg.paragraphs[k].sectionPath[i] # << >>

\* a heading line with only spaces after its marks: it became a heading
\* paragraph with an empty text and an empty title as its sectionPath
C29_BlankHeading ==
    /\ pc = "split" /\ seg.done
    /\ \E k \in DOMAIN seg.paragraphs :
          /\ seg.paragraphs[k].headingLevel = 1
          /\ seg.paragraphs[k].text = << >>
          /\ seg.paragraphs[k].sectionPath = << << >> >>

\* cmd_generate has ended after validate_deck refused the generated deck
GeneratedDeckRefused ==
    pc = "exited" /\ validation # NoValidation /\ ~validation.ok

WithoutGeneratedAt(d) ==
    IF IsDict(d) /\ Has(d, "meta") THEN SetKey(d, "meta", DropKey(d.v["meta"], "generatedAt"))
    ELSE d

\* C26: when cmd_analyze has printed a document without --verbose and then,
\* for the same text and the same other options, with --verbose, the two
\* documents are the same apart from meta.generatedAt
C26_VerboseNeutral ==
    (run = 2 /\ pc = "exited" /\ exitcode = ExitOk /\ first.pc = "returned") =>
        WithoutGeneratedAt(stdout) = WithoutGeneratedAt(first.stdout)

\* both calls printed a deck, and only the one under --verbose has the key
\* _debug, with the options and the resolved language
C26_DebugKeyPrinted ==
    /\ run = 2 /\ pc = "exited" /\ exitcode = ExitOk /\ first.pc = "returned"
    /\ opt.verbose
    /\ ~Has(first.stdout, "_debug")
    /\ Has(stdout, "_debug")
    /\ DropKey(WithoutGeneratedAt(stdout), "_debug") = WithoutGeneratedAt(first.stdout)

\* every paragraph of the call has an all-zero vector
AllZeroEmbeddings ==
    /\ vectors # << >>
    /\ \A i \in DOMAIN vectors : \A k \in DOMAIN vectors[i] : vectors[i][k] = 0

\* C27: when every paragraph of a call of analyze_text or run_agent_a has
\* an all-zero embedding vector, the call fails and returns no deck: it
\* never goes on to the clustering loop
C27_ZeroEmbeddingsRejected ==
    AllZeroEmbeddings => pc \notin {"cluster", "returned", "validated"}

\* a call returned a deck whose topics were clustered from all-zero vectors,
\* and so did the call before it
C27_DeckFromZeroVectors ==
    /\ AllZeroEmbeddings
    /\ run = 2 /\ pc = "returned" /\ first.pc = "returned"
    /\ Len(deck.topics) >= 1 /\ deck = first.deck

\* the positions of the cards of topic tid
CardsAt(d, tid) == {j \in DOMAIN d.cards : d.cards[j].topicId = tid}

\* C28: in every result of run_agent_a the topic at 0-based position i has
\* the id t(i+1), the card at 0-based position j the id c(j+1), every card
\* names an existing topic, and the cards of one topic, the two halves of a
\* split topic too, stand next to each other in the order of the topics
C28_Numbering ==
    (impl = "agent_a" /\ pc = "returned") =>
        /\ \A i \in DOMAIN deck.topics : deck.topics[i].id = MakeId("t", i)
        /\ \A j \in DOMAIN deck.cards :
              /\ deck.cards[j].id = MakeId("c", j)
              /\ \E i \in DOMAIN deck.topics : deck.cards[j].topicId = deck.topics[i].id
        /\ \A i, k \in DOMAIN deck.topics :
              i < k => \A a \in CardsAt(deck, deck.topics[i].id) :
                           \A b \in CardsAt(deck, deck.topics[k].id) : a < b

\* a result of run_agent_a with a split topic and a topic after it: the
\* topics are t0 and t1, the cards c1 and c2 of t0 and c3 of t1
C28_TopicsFromZero ==
    /\ impl = "agent_a" /\ pc = "returned"
    /\ Len(deck.topics) = 2 /\ Len(deck.cards) = 3
    /\ \A i \in DOMAIN deck.topics : deck.topics[i].id = MakeId("t", i - 1)
    /\ \A j \in DOMAIN deck.cards : deck.cards[j].id = MakeId("c", j)
    /\ CardsAt(deck, deck.topics[1].id) = {1, 2}
    /\ CardsAt(deck, deck.topics[2].id) = {3}

\* the idx of the members of the open topic at position i, in list order
MemberIdx(i) ==
    [k \in DOMAIN topics[i].memberIds |-> IdxOfPid(paragraphs, topics[i].memberIds[k])]
\* the open topics in creation order: the first members have strictly
\* increasing idx, and every member list is in strictly ascending idx
CreationOrdered ==
    /\ \A i \in DOMAIN topics :
          \A a, b \in DOMAIN MemberIdx(i) : a < b => MemberIdx(i)[a] < MemberIdx(i)[b]
    /\ \A i, k \in DOMAIN topics : i < k => MemberIdx(i)[1] < MemberIdx(k)[1]
\* one iteration of the clustering loop: the topics stay where they are and
\* keep their members, the paragraph goes to the end of one member list
MembersStay ==
    /\ Len(topics') >= Len(topics)
    /\ \A i \in DOMAIN topics :
          Prefix(topics'[i].memberIds, Len(topics[i].memberIds)) = topics[i].memberIds
\* the end of the pass: sorting the topics by their smallest member idx, and
\* the members of a topic by idx, changes nothing, and the old-to-new id map
\* of analyze_text maps every id to itself
SortsChangeNothing ==
    /\ [i \in DOMAIN topics' |-> topics'[i].memberIds]
           = [i \in DOMAIN topics |-> topics[i].memberIds]
    /\ deck'.topics = topics'
    /\ impl = "l2c" =>
          /\ _sort_topics_deterministic(topics', paragraphs) = topics'
          /\ \A old \in DOMAIN TopicIdMap(topics') : TopicIdMap(topics')[old] = old

\* C30: at every step of the clustering pass of _cluster_threshold and
\* cluster_topics the open topics in creation order have strictly increasing
\* first members and ascending member lists, an assigned paragraph stays in
\* its topic, and so the final sorts and the id map of analyze_text leave
\* the order and the ids as they were created
C30_CreationOrderIsFinal ==
    [][/\ pc' = "cluster" => CreationOrdered'
       /\ (pc = "cluster" /\ pc' = "cluster") => MembersStay
       /\ (pc = "cluster" /\ pc' = "returned") => SortsChangeNothing]_vars

\* analyze_text returned two topics, the first of which took a paragraph
\* that comes after the first member of the second
C30_LateMemberOfEarlyTopic ==
    /\ impl = "l2c" /\ pc = "returned"
    /\ Len(topics) >= 2
    /\ \E k \in DOMAIN MemberIdx(1) : MemberIdx(1)[k] > MemberIdx(2)[1]
    /\ deck.topics = topics

=============================================================================
